---- MODULE Spec2Model ----
(***************************************************************************)
(* Order execution and position state of the coin_trading bot:            *)
(* TradeExecutor (trader/trade_executor.py), the OrderExecutionTemplate    *)
(* executors (trader/order_execution_template.py, live_order_executor.py,  *)
(* simulated_order_executor.py), Position (models.py), StateManager        *)
(* (state_manager.py) and the LiveTrader position handlers                 *)
(* (live_trader_gpt.py).                                                   *)
(*                                                                         *)
(* Numbers that are Python floats in the source are exact rationals here,  *)
(* written <<numerator, denominator>> in lowest terms.                     *)
(***************************************************************************)
EXTENDS Integers, Sequences, FiniteSets, TLC

----------------------------------------------------------------------------
(* Bounds of the model *)

\* largest order_retry the executor is configured with
MaxRetry == 1
\* largest number of get_order polls that fit before the polling deadline
MaxPolls == 1
\* number of executor calls and handler runs in one behaviour
MaxIntents == 1
\* number of position-management cycles in one behaviour
MaxCycles == 2

----------------------------------------------------------------------------
(* Exact arithmetic standing for the float arithmetic of the source *)

Abs(x) == IF x < 0 THEN -x ELSE x

RECURSIVE GCD(_, _)
GCD(a, b) == IF b = 0 THEN a ELSE GCD(b, a % b)

Rat(n, d) ==
    LET g == GCD(Abs(n), Abs(d))
        s == IF d < 0 THEN -1 ELSE 1
    IN  IF n = 0 THEN <<0, 1>> ELSE <<(s * n) \div g, (s * d) \div g>>

R(n) == <<n, 1>>
Zero == R(0)
\* operands are cancelled before they are multiplied, so that intermediate
\* products stay small
RAdd(a, b) ==
    LET g == GCD(a[2], b[2])
    IN  Rat(a[1] * (b[2] \div g) + b[1] * (a[2] \div g), (a[2] \div g) * b[2])
RSub(a, b) == RAdd(a, <<-b[1], b[2]>>)
RMul(a, b) ==
    LET x == Rat(a[1], b[2])
        y == Rat(b[1], a[2])
    IN  Rat(x[1] * y[1], x[2] * y[2])
RDiv(a, b) == RMul(a, Rat(b[2], b[1]))
RLt(a, b) ==
    LET g == GCD(a[2], b[2])
    IN  a[1] * (b[2] \div g) < b[1] * (a[2] \div g)
RLe(a, b) ==
    LET g == GCD(a[2], b[2])
    IN  a[1] * (b[2] \div g) <= b[1] * (a[2] \div g)
RMin(a, b) == IF RLe(a, b) THEN a ELSE b
RMax(a, b) == IF RLe(a, b) THEN b ELSE a
\* int(x) of Python: truncation toward zero
RTrunc(a) == IF a[1] >= 0 THEN a[1] \div a[2] ELSE -((-a[1]) \div a[2])

----------------------------------------------------------------------------
(* models.py: Position and PositionLeg *)

None == "None"

PositionLeg(timestamp, side, qty, price, reason) ==
    [timestamp |-> timestamp, side |-> side, qty |-> qty, price |-> price,
     reason |-> reason]

RECURSIVE SumBuyCost(_)
SumBuyCost(legs) ==
    IF legs = <<>> THEN Zero
    ELSE LET l == Head(legs)
         IN  IF l.side = "BUY"
             THEN RAdd(RMul(l.qty, l.price), SumBuyCost(Tail(legs)))
             ELSE SumBuyCost(Tail(legs))

RECURSIVE SumBuyQty(_)
SumBuyQty(legs) ==
    IF legs = <<>> THEN Zero
    ELSE LET l == Head(legs)
         IN  IF l.side = "BUY"
             THEN RAdd(l.qty, SumBuyQty(Tail(legs)))
             ELSE SumBuyQty(Tail(legs))

\* Position._recalculate_totals: qty and entry_price from the BUY legs
RecalculateTotals(p) ==
    IF p.legs = <<>> THEN [p EXCEPT !.qty = Zero, !.entry_price = Zero]
    ELSE LET total_cost == SumBuyCost(p.legs)
             total_qty == SumBuyQty(p.legs)
         IN  IF RLt(Zero, total_qty)
             THEN [p EXCEPT !.qty = total_qty,
                            !.entry_price = RDiv(total_cost, total_qty)]
             ELSE [p EXCEPT !.qty = Zero, !.entry_price = Zero]

\* Position.__init__
NewPosition(qty, entry_price, stop_price, open_time) ==
    LET base == [legs |-> <<>>,
                 partial_exits |-> <<>>,
                 status |-> "ACTIVE",
                 entry_time |-> open_time,
                 qty |-> qty,
                 entry_price |-> entry_price,
                 stop_price |-> stop_price,
                 trailing_stop_price |-> stop_price,
                 highest_price |-> IF RLt(Zero, entry_price) THEN entry_price ELSE Zero]
    IN  IF RLt(Zero, qty) /\ RLt(Zero, entry_price)
        THEN RecalculateTotals(
                 [base EXCEPT !.legs =
                            <<PositionLeg(open_time, "BUY", qty, entry_price, "entry")>>])
        ELSE base

\* Position.add_leg
AddLeg(p, leg) == RecalculateTotals([p EXCEPT !.legs = Append(p.legs, leg)])

\* Position.to_dict: what the state file keeps of a position
ToDict(p) ==
    [qty |-> p.qty,
     entry_price |-> p.entry_price,
     stop_price |-> p.trailing_stop_price,
     open_time |-> p.entry_time,
     legs |-> p.legs,
     trailing_stop_price |-> p.trailing_stop_price,
     highest_price |-> p.highest_price]

\* Position.from_dict: a position rebuilt from the state file
FromDict(d) ==
    LET made == NewPosition(d.qty, d.entry_price, d.trailing_stop_price, d.open_time)
        withLegs == IF d.legs # <<>>
                    THEN RecalculateTotals([made EXCEPT !.legs = d.legs])
                    ELSE made
    IN  [withLegs EXCEPT !.trailing_stop_price = d.trailing_stop_price,
                         !.highest_price = d.highest_price]

----------------------------------------------------------------------------
(* Program constants and the values the collaborators hand in *)

Symbols == {"BTCUSDT"}

\* live_trader_gpt.py: MIN_ORDER_USDT = 10.0 (config.min_order_usdt)
MIN_ORDER_USDT == 10
\* live_trader_gpt.py: BRACKET_K_SL = 1.5, BRACKET_RR = 2.0, ATR_MULTIPLIER = 0.5
BRACKET_K_SL == <<3, 2>>
BRACKET_RR == <<2, 1>>
ATR_MULTIPLIER == <<1, 2>>

\* usdt_to_spend / usdt_amount of a buy
Amounts == {R(5), R(100)}
\* data_provider.get_current_price: 0.0 when the ticker cannot be read
CurrentPrices == {R(0), R(125)}
\* last row of data_provider.get_and_update_klines: Close and the optional atr column
Klines == {[close |-> R(100), has_atr |-> TRUE, atr |-> R(4)],
           [close |-> R(100), has_atr |-> FALSE, atr |-> Zero]}
\* client.get_orderbook_ticker: absent quote, a tight and a wide spread
\* (ok = FALSE: the call raises)
Quotes == {[ok |-> FALSE, bid |-> R(0), ask |-> R(0)],
           [ok |-> TRUE, bid |-> R(0), ask |-> R(0)],
           [ok |-> TRUE, bid |-> R(100), ask |-> <<1001, 10>>],
           [ok |-> TRUE, bid |-> R(100), ask |-> R(101)]}
\* max_slippage_bps the executor is constructed with (0: guard switched off)
SlippageCeilings == {0, 50}
\* client.get_symbol_info: LOT_SIZE stepSize / minQty and MIN_NOTIONAL
\* (ok = FALSE: the call raises)
Filters == {[ok |-> FALSE, lot_step_size |-> R(0), lot_min_qty |-> R(0),
             min_notional |-> R(0)],
            [ok |-> TRUE, lot_step_size |-> R(0), lot_min_qty |-> R(0),
             min_notional |-> R(0)],
            [ok |-> TRUE, lot_step_size |-> R(2), lot_min_qty |-> R(2),
             min_notional |-> R(0)],
            [ok |-> TRUE, lot_step_size |-> R(1), lot_min_qty |-> R(5),
             min_notional |-> R(0)],
            [ok |-> TRUE, lot_step_size |-> <<1, 2>>, lot_min_qty |-> <<1, 2>>,
             min_notional |-> R(150)]}
\* fills the exchange gives a market buy
BuyFills == {<<[price |-> R(100), qty |-> R(1)], [price |-> R(103), qty |-> R(2)]>>}
\* price at which the exchange fills a market sell
SellPrices == {R(101)}

----------------------------------------------------------------------------
(* State *)

VARIABLES
    config,            \* execution_mode, kill_switch, order_retry, max_slippage_bps
    positions,         \* the in-memory map symbol -> Position 
    persisted,         \* the state file: symbol -> Position.to_dict()
    pc,                \* where the running operation stands ("idle": none running)
    op,                \* the running (or last) executor call
    client_order_id,   \* the idempotency key of the running call (0: none yet)
    nextId,            \* the clock: operations started so far
    attempt,           \* loop index of the retry helper
    resp,              \* the order response held by the executor
    polls,             \* get_order polls made by the polling loop
    exch,              \* orders the exchange holds for the running call
    calls,             \* broker calls of the running (or last) executor call
    outcome,           \* how the running (or last) executor call ended
    pre,               \* positions and state file when the executor call started
    handler,           \* the running (or last) LiveTrader position handler
    now,               \* the wall clock, in seconds
    cycle,             \* position-management cycles run so far
    market,            \* the market data of the last evaluation
    action,            \* the PositionAction of the last evaluation
    run,               \* the trader's run loop: who runs it, _running, where it stands
    calc               \* the last call of a sizing or bracket function

\* the position-management loop
mgmt == <<now, cycle, market, action, run>>

\* the order executors
exec == <<pc, op, client_order_id, nextId, attempt, resp, polls, exch, calls, outcome,
          pre, handler>>

vars == <<config, positions, persisted, exec, mgmt, calc>>

NoOp == [kind |-> "none", impl |-> "none", symbol |-> None, amount |-> Zero,
         qty |-> Zero, partial_exit |-> FALSE, exit_qty |-> Zero, caller |-> "none",
         filters |-> [ok |-> FALSE, lot_step_size |-> Zero, lot_min_qty |-> Zero,
                      min_notional |-> Zero],
         price |-> Zero,
         tick |-> [ok |-> FALSE, bid |-> Zero, ask |-> Zero],
         delay |-> <<1, 2>>, slept |-> <<>>]
\* no (or a falsy) response
NoResponse ==
    [clientOrderId |-> 0, orderId |-> 0, status |-> "NONE",
     executedQty |-> Zero, cummulativeQuoteQty |-> Zero, fills |-> <<>>]

NoHandler == [kind |-> "none", symbol |-> None, position |-> NewPosition(Zero, Zero, Zero, 0),
              before |-> [positions |-> [s \in {} |-> Zero],
                          persisted |-> [s \in {} |-> Zero]],
              result |-> "none", price |-> Zero]

\* no market data read yet
NoMarket == [close |-> Zero, atr |-> Zero, score |-> Zero]

\* models.py PositionAction; action_type "None": the evaluation returned None.
\* The metadata keys the handlers read are fields here (0: key absent); `by`
\* names the evaluator and `pending` tells that no handler has taken it yet.
PositionAction(by, action_type, qty_ratio, price, reason, pyramid_size, averaging_size, exit_qty) ==
    [pending |-> TRUE, by |-> by, action_type |-> action_type,
     qty_ratio |-> qty_ratio, price |-> price, reason |-> reason,
     pyramid_size |-> pyramid_size, averaging_size |-> averaging_size,
     exit_qty |-> exit_qty]

NoAction ==
    [PositionAction("none", "None", R(1), Zero, "", Zero, Zero, Zero)
        EXCEPT !.pending = FALSE]

\* no run loop started
NoRun == [trader |-> "none", running |-> FALSE, at |-> "none"]

\* no sizing or bracket call yet
NoCalc == [fn |-> "none"]

\* a Python dict keyed by symbol is a function on the symbols it holds
EmptyMap == [s \in {} |-> Zero]
Has(map, symbol) == symbol \in DOMAIN map
Put(map, symbol, value) ==
    [s \in DOMAIN map \cup {symbol} |-> IF s = symbol THEN value ELSE map[s]]
Del(map, symbol) == [s \in DOMAIN map \ {symbol} |-> map[s]]

\* state_manager.py

\* StateManager.save_positions: the whole map overwrites the file
SavePositions(ps) == [s \in DOMAIN ps |-> ToDict(ps[s])]

\* StateManager.load_positions
LoadPositions(file) == [s \in DOMAIN file |-> FromDict(file[s])]

\* StateManager.upsert_position: load the file, set one symbol, save
UpsertPosition(file, symbol, position) ==
    SavePositions(Put(LoadPositions(file), symbol, position))

\* the state file the trader finds when it is constructed (LiveTrader.__init__
\* loads it): none, or one position saved by an earlier run
StateFiles ==
    {EmptyMap,
     [s \in Symbols |-> ToDict(NewPosition(R(3), R(100), R(94), 0))]}

Init ==
    /\ config \in [execution_mode : {"LIVE", "SIMULATED"},
                   kill_switch : BOOLEAN,
                   order_retry : -1..MaxRetry,
                   max_slippage_bps : SlippageCeilings]
    /\ persisted \in StateFiles
    /\ positions = LoadPositions(persisted)
    /\ pc = "idle"
    /\ op = NoOp
    /\ client_order_id = 0
    /\ nextId = 0
    /\ attempt = 0
    /\ resp = NoResponse
    /\ polls = 0
    /\ exch = <<>>
    /\ calls = <<>>
    /\ outcome = "none"
    /\ pre = [positions |-> EmptyMap, persisted |-> EmptyMap]
    /\ handler = NoHandler
    /\ now = 0
    /\ cycle = 0
    /\ market = NoMarket
    /\ action = NoAction
    /\ run = NoRun
    /\ calc = NoCalc

----------------------------------------------------------------------------
(* trader/symbol_rules.py and trader/risk_manager.py *)

\* round(x, 8): the nearest multiple of 10^-8, a tie to the even one
Round8(x) ==
    LET t == RMul(x, R(100000000))
        lo == t[1] \div t[2]
        twice == 2 * (t[1] - lo * t[2])
        n == IF twice > t[2] \/ (twice = t[2] /\ lo % 2 = 1) THEN lo + 1 ELSE lo
    IN  Rat(n, 100000000)

\* round_qty_to_step: round(int(qty / step) * step, 8)
RoundQtyToStep(qty, step_size) ==
    IF RLe(step_size, Zero) THEN qty
    ELSE Round8(RMul(R(RTrunc(RDiv(qty, step_size))), step_size))

\* validate_min_notional
ValidateMinNotional(price, qty, min_notional) ==
    IF RLe(min_notional, Zero) THEN TRUE
    ELSE RLe(min_notional, RMul(price, qty))

\* a bracket that takes every side for long and accepts every argument
LongOnlyBracket(entry, atr, side, k_sl, rr) ==
    [ok |-> TRUE, sl |-> RSub(entry, RMul(k_sl, atr)),
     tp |-> RAdd(entry, RMul(rr, RMul(k_sl, atr)))]

\* compute_initial_bracket: raises ValueError (ok = FALSE) on invalid input
ComputeInitialBracket(entry, atr, side, k_sl, rr) ==
    LET distance == RMul(k_sl, atr)
    IN  IF RLt(atr, Zero) \/ RLt(k_sl, Zero) \/ RLt(rr, Zero)
        THEN [ok |-> FALSE, sl |-> Zero, tp |-> Zero]
        ELSE IF side = "long"
        THEN [ok |-> TRUE, sl |-> RSub(entry, distance),
              tp |-> RAdd(entry, RMul(rr, distance))]
        ELSE IF side = "short"
        THEN [ok |-> TRUE, sl |-> RAdd(entry, distance),
              tp |-> RSub(entry, RMul(rr, distance))]
        ELSE [ok |-> FALSE, sl |-> Zero, tp |-> Zero]

\* atr of the last kline row, or 2% of the close when the column is missing
AtrOf(k) == IF ~k.has_atr THEN RMul(k.close, <<2, 100>>) ELSE k.atr

\* the stop of a new long position: the bracket, or the ATR fallback when the
\* bracket computation raises
InitialStop(entry, k, k_sl, rr, atr_multiplier) ==
    LET b == ComputeInitialBracket(entry, AtrOf(k), "long", k_sl, rr)
    IN  IF b.ok THEN b.sl
        ELSE RMax(Zero, RSub(k.close, RMul(AtrOf(k), atr_multiplier)))

----------------------------------------------------------------------------
(* The exchange behind the Binance client *)

RECURSIVE SumQty(_)
SumQty(fills) == IF fills = <<>> THEN Zero ELSE RAdd(Head(fills).qty, SumQty(Tail(fills)))

RECURSIVE SumQuote(_)
SumQuote(fills) ==
    IF fills = <<>> THEN Zero
    ELSE RAdd(RMul(Head(fills).price, Head(fills).qty), SumQuote(Tail(fills)))

\* an order of an earlier intent that the recent-orders list also shows
ForeignOrder ==
    [clientOrderId |-> 99, orderId |-> 99, status |-> "FILLED",
     executedQty |-> R(7), cummulativeQuoteQty |-> R(70), fills |-> <<>>]

\* the response the exchange gives for its order number i; fills are listed
\* only in the FULL response to create_order
OrderView(book, i, full) ==
    IF i \notin DOMAIN book THEN ForeignOrder
    ELSE LET o == book[i]
             done == o.status = "FILLED"
         IN  [clientOrderId |-> o.clientOrderId,
              orderId |-> i,
              status |-> o.status,
              executedQty |-> IF done THEN SumQty(o.plan) ELSE Zero,
              cummulativeQuoteQty |-> IF done THEN SumQuote(o.plan) ELSE Zero,
              fills |-> IF done /\ full THEN o.plan ELSE <<>>]

\* the exchange fills its open orders
FillAll(book) == [i \in DOMAIN book |-> [book[i] EXCEPT !.status = "FILLED"]]

\* get_all_orders: the recent orders, oldest first
RecentOrders(book, visible) ==
    <<ForeignOrder>> \o (IF visible THEN [i \in DOMAIN book |-> OrderView(book, i, FALSE)]
                         ELSE <<>>)

\* what a list of orders shows of the order with the key
SeenStatus(orders, key) ==
    IF \E i \in DOMAIN orders :
          orders[i].clientOrderId = key /\ orders[i].status = "FILLED"
    THEN "FILLED"
    ELSE IF \E i \in DOMAIN orders : orders[i].clientOrderId = key THEN "NEW"
    ELSE "NONE"

\* a client order id is unique among the open orders of the exchange
HasOpen(book, key) ==
    \E i \in DOMAIN book : book[i].clientOrderId = key /\ book[i].status = "NEW"

----------------------------------------------------------------------------
(* trader/trade_executor.py: helpers *)

\* float(f.get("commission", 0.0)) of one fill
Commission(f) == IF "commission" \in DOMAIN f THEN f.commission ELSE Zero

RECURSIVE TotalFee(_)
\* sum of the commissions of the fills
TotalFee(fills) ==
    IF fills = <<>> THEN Zero ELSE RAdd(Commission(Head(fills)), TotalFee(Tail(fills)))

RECURSIVE FeeAsset(_, _)
\* fee_asset = f.get("commissionAsset", fee_asset), fill after fill
FeeAsset(fills, fee_asset) ==
    IF fills = <<>> THEN fee_asset
    ELSE FeeAsset(Tail(fills), IF "commissionAsset" \in DOMAIN Head(fills)
                               THEN Head(fills).commissionAsset ELSE fee_asset)

\* an aggregator that reads the totals of the response whatever the fills are
ComputeFromTotals(r) ==
    [avg_price |-> IF RLt(Zero, r.executedQty)
                   THEN RDiv(r.cummulativeQuoteQty, r.executedQty) ELSE Zero,
     executed_qty |-> r.executedQty, total_fee |-> Zero, fee_asset |-> None]

\* _compute_fills: (avg_price, executed_qty, total_fee, fee_asset) of a response
ComputeFills(r) ==
    IF r.fills = <<>>
    THEN [avg_price |-> IF RLt(Zero, r.executedQty)
                        THEN RDiv(r.cummulativeQuoteQty, r.executedQty) ELSE Zero,
          executed_qty |-> r.executedQty, total_fee |-> Zero, fee_asset |-> None]
    ELSE LET total_quote == SumQuote(r.fills)
             total_base == SumQty(r.fills)
         IN  [avg_price |-> IF RLt(Zero, total_base)
                            THEN RDiv(total_quote, total_base) ELSE Zero,
              executed_qty |-> total_base, total_fee |-> TotalFee(r.fills),
              fee_asset |-> FeeAsset(r.fills, None)]

\* a guard that lets every spread pass
NoSlippageGuard(max_bps, tick) == TRUE

\* a guard that rejects a spread equal to the ceiling
StrictSlippageGuard(max_bps, tick) ==
    IF max_bps <= 0 THEN TRUE
    ELSE IF ~tick.ok THEN TRUE
    ELSE IF RLe(tick.bid, Zero) \/ RLe(tick.ask, Zero) THEN TRUE
    ELSE LET mid == RDiv(RAdd(tick.bid, tick.ask), R(2))
             spread_bps == RMul(RDiv(RSub(tick.ask, tick.bid), mid), R(10000))
         IN  RLt(spread_bps, R(max_bps))

\* _is_slippage_within_limit, given the ticker (ok = FALSE: the call failed)
IsSlippageWithinLimit(max_bps, tick) ==
    IF max_bps <= 0 THEN TRUE
    ELSE IF ~tick.ok THEN TRUE
    ELSE IF RLe(tick.bid, Zero) \/ RLe(tick.ask, Zero) THEN TRUE
    ELSE LET mid == RDiv(RAdd(tick.bid, tick.ask), R(2))
             spread_bps == RMul(RDiv(RSub(tick.ask, tick.bid), mid), R(10000))
         IN  RLe(spread_bps, R(max_bps))

\* a guard that ignores the execution mode
KillSwitchAnyMode(cfg) == cfg.kill_switch

\* the guard at the top of market_buy / market_sell and of pre_execution_check
KillSwitchBlocks(cfg) == cfg.kill_switch /\ cfg.execution_mode = "LIVE"

\* a budget of one attempt more than configured
GenerousRetries(cfg) == IF cfg.order_retry < 0 THEN 1 ELSE cfg.order_retry + 1

\* max(0, order_retry)
Retries(cfg) == IF cfg.order_retry < 0 THEN 0 ELSE cfg.order_retry

\* a closure that would build a new key on every attempt
RetryKey(key, att) == key + att

\* the newClientOrderId the _place closure sends on the given attempt
PlaceKey(key, att) == key

\* a scan that overlooks the key
OverlookMatch(orders, key) == NoResponse

\* the retry helper's scan of the recent orders: the first with the key
RECURSIVE FirstMatch(_, _)
FirstMatch(orders, key) ==
    IF orders = <<>> THEN NoResponse
    ELSE IF Head(orders).clientOrderId = key THEN Head(orders)
    ELSE FirstMatch(Tail(orders), key)

\* market_buy's scan after the polling timeout: the first FILLED with the key
RECURSIVE FirstFilledMatch(_, _)
FirstFilledMatch(orders, key) ==
    IF orders = <<>> THEN NoResponse
    ELSE IF Head(orders).clientOrderId = key /\ Head(orders).status = "FILLED"
         THEN Head(orders)
    ELSE FirstFilledMatch(Tail(orders), key)

\* a test that lets a zero quantity pass
NegativeFill(executed_qty) == RLt(executed_qty, Zero)

\* `if executed_qty <= 0` of market_buy / market_sell
IsZeroFill(executed_qty) == RLe(executed_qty, Zero)

\* where control goes when the executor call returns
RetPc(caller) == IF caller = "add" THEN "add_after" ELSE "idle"

Snapshot == [positions |-> positions, persisted |-> persisted]

\* one broker call in the log: the key and quantity sent, and what came back
\* ("raise", "falsy" or the status of the order with the key; "-" for the
\* market-data calls, whose replies the log does not keep)
Call(api, key, qty, got) == [api |-> api, key |-> key, qty |-> qty, got |-> got]

\* a fresh executor call: nothing sent, nothing held
FreshCall ==
    /\ nextId' = nextId + 1
    /\ client_order_id' = 0
    /\ attempt' = 0
    /\ resp' = NoResponse
    /\ polls' = 0
    /\ exch' = <<>>
    /\ calls' = <<>>
    /\ pre' = Snapshot

----------------------------------------------------------------------------
(* TradeExecutor.market_buy / market_sell: entry *)

\* the Position a TradeExecutor buy records: it replaces the map entry
BoughtPosition(qty, entry_price, stop) == NewPosition(qty, entry_price, stop, now)

\* market_buy up to its first broker call; SIMULATED buys complete here.
\* Called by LiveTrader._place_buy_order, directly (pc = "idle") or from
\* _handle_position_addition (pc = "call_buy").
MarketBuyFrom(symbol, usdt, caller) ==
    /\ FreshCall
    /\ op' = [NoOp EXCEPT !.kind = "buy", !.impl = "TE", !.symbol = symbol,
                          !.amount = usdt, !.caller = caller]
    /\ handler' = IF caller = "none" THEN NoHandler ELSE handler
    /\ UNCHANGED <<config, mgmt, calc>>
    /\ UNCHANGED <<mgmt, calc>>
    /\ IF KillSwitchBlocks(config)
       THEN /\ outcome' = "kill_switch"
            /\ pc' = RetPc(caller)
            /\ UNCHANGED <<positions, persisted>>
       ELSE IF config.execution_mode = "LIVE"
       THEN /\ outcome' = "none"
            /\ pc' = "slippage"
            /\ UNCHANGED <<positions, persisted>>
       ELSE \E price \in CurrentPrices, k \in Klines :
              /\ pc' = RetPc(caller)
              /\ IF RLe(price, Zero)
                 THEN /\ outcome' = "bad_price"
                      /\ UNCHANGED <<positions, persisted>>
                 ELSE LET qty == RDiv(usdt, price)
                          sl == InitialStop(k.close, k, BRACKET_K_SL, BRACKET_RR,
                                            ATR_MULTIPLIER)
                          new == Put(positions, symbol,
                                     BoughtPosition(qty, k.close, sl))
                      IN  /\ positions' = new
                          /\ persisted' = SavePositions(new)
                          /\ outcome' = "success"

\* the trader buys on an entry signal
MarketBuy ==
    /\ pc = "idle"
    /\ nextId < MaxIntents
    /\ \E symbol \in Symbols, usdt \in Amounts : MarketBuyFrom(symbol, usdt, "none")

\* _place_buy_order called by _handle_position_addition
PlaceBuyOrder ==
    /\ pc = "call_buy"
    /\ MarketBuyFrom(op.symbol, op.amount, op.caller)

\* who calls market_sell: the trader itself, or OrderManager.place_sell_order
\* (full exit) on behalf of the trading engine
SellCallers == {"none", "order_manager"}

\* what OrderManager.place_sell_order gives back once the sell has come back:
\* OrderError for a symbol without a position, True after market_sell returned
PlaceSellOrderReturn == IF outcome = "no_position" THEN "OrderError" ELSE "True"

\* market_sell up to its first broker call; SIMULATED sells complete here
MarketSell ==
    /\ pc = "idle"
    /\ nextId < MaxIntents
    /\ \E symbol \in Symbols, caller \in SellCallers :
         /\ FreshCall
         /\ op' = [NoOp EXCEPT !.kind = "sell", !.impl = "TE", !.symbol = symbol,
                               !.caller = caller]
         /\ handler' = NoHandler
         /\ UNCHANGED <<config, mgmt, calc>>
         /\ UNCHANGED <<mgmt, calc>>
         /\ IF ~Has(positions, symbol)
            THEN /\ outcome' = "no_position"
                 /\ pc' = "idle"
                 /\ UNCHANGED <<positions, persisted>>
            ELSE IF KillSwitchBlocks(config)
            THEN /\ outcome' = "kill_switch"
                 /\ pc' = "idle"
                 /\ UNCHANGED <<positions, persisted>>
            ELSE IF config.execution_mode = "LIVE"
            THEN /\ outcome' = "none"
                 /\ pc' = "slippage"
                 /\ UNCHANGED <<positions, persisted>>
            ELSE LET new == Del(positions, symbol)
                 IN  /\ positions' = new
                     /\ persisted' = SavePositions(new)
                     /\ outcome' = "success"
                     /\ pc' = "idle"

----------------------------------------------------------------------------
(* trader/order_execution_template.py, live_order_executor.py,
   simulated_order_executor.py: entry *)

\* sold quantities a partial sell asks for (0: exit_qty not given)
ExitQtys == {Zero, R(1), R(3)}

\* post_execution_process: the fill of the result, then a Position for a
\* symbol that is not in the map
PostExecutionProcess(ps, symbol, result, k) ==
    LET f == ComputeFills(result)
        failed == RLe(f.avg_price, Zero)
                     \/ (result.fills # <<>> /\ RLe(f.executed_qty, Zero))
        sl == InitialStop(f.avg_price, k, BRACKET_K_SL, BRACKET_RR, ATR_MULTIPLIER)
    IN  IF failed THEN [positions |-> ps, failed |-> TRUE]
        ELSE IF ~Has(ps, symbol)
        THEN [positions |-> Put(ps, symbol,
                                  NewPosition(f.executed_qty, f.avg_price, sl, now)),
              failed |-> FALSE]
        ELSE [positions |-> ps, failed |-> FALSE]

\* a simulated result filled at a fixed price instead of the price read
ListPriceResult(price, qty) ==
    [clientOrderId |-> 0, orderId |-> 0, status |-> "FILLED",
     executedQty |-> qty, cummulativeQuoteQty |-> RMul(qty, R(100)),
     fills |-> <<[price |-> R(100), qty |-> qty]>>]

\* the result dictionary a simulated order returns
SimulatedResult(price, qty) ==
    [clientOrderId |-> 0, orderId |-> 0, status |-> "FILLED",
     executedQty |-> qty, cummulativeQuoteQty |-> RMul(qty, price),
     fills |-> <<[price |-> price, qty |-> qty]>>]

\* a partial sell that keeps the position whatever is left of it
KeepReduced(ps, symbol, executed) ==
    [ps EXCEPT ![symbol].qty = RSub(ps[symbol].qty, executed)]

\* `position.qty -= executed; if position.qty <= 0: del positions[symbol]`
ReduceQty(ps, symbol, executed) ==
    LET left == RSub(ps[symbol].qty, executed)
    IN  IF RLe(left, Zero) THEN Del(ps, symbol)
        ELSE [ps EXCEPT ![symbol].qty = left]

\* SimulatedOrderExecutor.do_sell_order: the map after the sell
SimDoSell(ps, symbol, partial_exit, exit_qty) ==
    IF partial_exit /\ exit_qty # Zero
    THEN ReduceQty(ps, symbol, exit_qty)
    ELSE Del(ps, symbol)

\* execute_buy_order: pre_execution_check, then (SIMULATED) do_buy_order and
\* post_execution_process
ExecuteBuyOrder ==
    /\ pc = "idle"
    /\ nextId < MaxIntents
    /\ \E symbol \in Symbols, usdt \in Amounts :
         /\ FreshCall
         /\ op' = [NoOp EXCEPT !.kind = "buy", !.symbol = symbol, !.amount = usdt,
                     !.impl = IF config.execution_mode = "LIVE" THEN "LOE" ELSE "SIM"]
         /\ handler' = NoHandler
         /\ UNCHANGED <<config, mgmt, calc>>
         /\ UNCHANGED <<persisted>>
         /\ IF KillSwitchBlocks(config)
            THEN /\ outcome' = "kill_switch"
                 /\ pc' = "idle"
                 /\ UNCHANGED positions
            ELSE IF RLt(usdt, R(MIN_ORDER_USDT))
            THEN /\ outcome' = "rules"
                 /\ pc' = "idle"
                 /\ UNCHANGED positions
            ELSE IF config.execution_mode = "LIVE"
            THEN /\ outcome' = "none"
                 /\ pc' = "slippage"
                 /\ UNCHANGED positions
            ELSE \E price \in CurrentPrices, k \in Klines :
                   /\ pc' = "idle"
                   /\ IF RLe(price, Zero)
                      THEN /\ outcome' = "bad_price"
                           /\ UNCHANGED positions
                      ELSE LET post == PostExecutionProcess(positions, symbol,
                                           SimulatedResult(price, RDiv(usdt, price)), k)
                           IN  /\ positions' = post.positions
                               /\ outcome' = IF post.failed THEN "zero_qty" ELSE "success"

\* execute_sell_order: pre_execution_check, then (SIMULATED) do_sell_order and
\* post_execution_process
ExecuteSellOrder ==
    /\ pc = "idle"
    /\ nextId < MaxIntents
    /\ \E symbol \in Symbols, partial_exit \in BOOLEAN, exit_qty \in ExitQtys :
         /\ FreshCall
         /\ op' = [NoOp EXCEPT !.kind = "sell", !.symbol = symbol,
                     !.partial_exit = partial_exit, !.exit_qty = exit_qty,
                     !.impl = IF config.execution_mode = "LIVE" THEN "LOE" ELSE "SIM"]
         /\ handler' = NoHandler
         /\ UNCHANGED <<config, mgmt, calc>>
         /\ UNCHANGED <<persisted>>
         /\ IF KillSwitchBlocks(config)
            THEN /\ outcome' = "kill_switch"
                 /\ pc' = "idle"
                 /\ UNCHANGED positions
            ELSE IF /\ Has(positions, symbol)
                    /\ partial_exit /\ exit_qty # Zero
                    /\ RLt(positions[symbol].qty, exit_qty)
            THEN /\ outcome' = "rules"
                 /\ pc' = "idle"
                 /\ UNCHANGED positions
            ELSE IF config.execution_mode = "LIVE"
            THEN /\ outcome' = "none"
                 /\ pc' = "slippage"
                 /\ UNCHANGED positions
            ELSE IF ~Has(positions, symbol)
            THEN /\ outcome' = "no_position"
                 /\ pc' = "idle"
                 /\ UNCHANGED positions
            ELSE \E price \in CurrentPrices, k \in Klines :
                   /\ pc' = "idle"
                   /\ IF RLe(price, Zero)
                      THEN /\ outcome' = "bad_price"
                           /\ UNCHANGED positions
                      ELSE LET qty_to_sell == IF exit_qty # Zero THEN exit_qty
                                              ELSE positions[symbol].qty
                               sold == SimDoSell(positions, symbol, partial_exit, exit_qty)
                               post == PostExecutionProcess(sold, symbol,
                                           SimulatedResult(price, qty_to_sell), k)
                           IN  IF positions[symbol].entry_price = Zero
                               THEN \* pnl_pct divides by the entry price
                                    /\ positions' = sold
                                    /\ outcome' = "exception"
                               ELSE /\ positions' = post.positions
                                    /\ outcome' = IF post.failed THEN "zero_qty"
                                                  ELSE "success"

----------------------------------------------------------------------------
(* The LIVE path, one broker call at a time *)

\* the executor call returns
Leave(result) ==
    /\ outcome' = result
    /\ pc' = RetPc(op.caller)

\* the key is built from the symbol, the side and the millisecond clock
GenerateClientOrderId == client_order_id' = nextId

\* OrderExecutionTemplate._check_slippage raises its ValidationError inside
\* the try block whose `except Exception` logs and continues
TemplateSlippageRaises(max_bps, tick) == FALSE

\* whether the slippage step stops the order
SlippageBlocks(impl, max_bps, tick) ==
    IF impl = "TE" THEN ~IsSlippageWithinLimit(max_bps, tick)
    ELSE TemplateSlippageRaises(max_bps, tick)

\* _is_slippage_within_limit / _check_slippage with the ticker the broker returns
CheckSlippage ==
    /\ pc = "slippage"
    /\ \E tick \in Quotes :
         LET asked == op.impl = "LOE" \/ config.max_slippage_bps > 0
             blocked == asked /\ SlippageBlocks(op.impl, config.max_slippage_bps, tick)
         IN  /\ calls' = IF asked
                         THEN Append(calls, Call("get_orderbook_ticker", 0, Zero, "-"))
                         ELSE calls
             /\ IF blocked
                THEN /\ Leave("slippage")
                     /\ UNCHANGED client_order_id
                ELSE IF op.kind = "buy"
                THEN /\ GenerateClientOrderId
                     /\ pc' = "place"
                     /\ UNCHANGED outcome
                ELSE /\ pc' = "rules"
                     /\ UNCHANGED <<client_order_id, outcome>>
             \* tick: the quote the guard has read
             /\ op' = IF asked THEN [op EXCEPT !.tick = tick] ELSE op
    /\ UNCHANGED <<config, mgmt, calc>>
    /\ UNCHANGED <<positions, persisted, nextId, attempt, resp, polls,
                   exch, pre, handler>>

\* a sell that skips the lot and notional checks
AlwaysOk(qty_rounded, price, f) == "ok"

\* the lot and notional checks of a sell: "ok" or the reason of the rejection
SellQtyCheck(qty_rounded, price, f) ==
    IF RLe(qty_rounded, Zero) \/ RLt(qty_rounded, f.lot_min_qty) THEN "rules"
    ELSE IF ~ValidateMinNotional(price, qty_rounded, f.min_notional) THEN "rules"
    ELSE "ok"

\* market_sell lines 304-316 / do_sell_order lines 99-125: symbol filters,
\* price, rounding and validation, then the key
SellRules ==
    /\ pc = "rules"
    /\ UNCHANGED <<config, mgmt, calc>>
    /\ UNCHANGED <<positions, persisted, nextId, attempt, resp, polls, exch,
                   pre, handler>>
    /\ IF ~Has(positions, op.symbol)
       THEN /\ Leave("no_position")
            /\ UNCHANGED <<op, calls, client_order_id>>
       ELSE \E f \in Filters, tick \in Quotes,
               current_price \in CurrentPrices :
              LET info == Call("get_symbol_info", 0, Zero, "-")
                  ticker == Call("get_orderbook_ticker", 0, Zero, "-")
                  position == positions[op.symbol]
                  qty_to_sell == IF op.impl = "LOE" /\ op.exit_qty # Zero
                                 THEN op.exit_qty ELSE position.qty
                  qty_rounded == RoundQtyToStep(qty_to_sell, f.lot_step_size)
                  price == IF op.impl = "TE" THEN tick.bid ELSE current_price
              IN  IF ~f.ok
                  THEN /\ calls' = Append(calls, info)
                       /\ Leave("exception")
                       /\ UNCHANGED <<op, client_order_id>>
                  ELSE IF op.impl = "TE" /\ ~tick.ok
                  THEN /\ calls' = calls \o <<info, ticker>>
                       /\ Leave("exception")
                       /\ UNCHANGED <<op, client_order_id>>
                  ELSE /\ calls' = IF op.impl = "TE" THEN calls \o <<info, ticker>>
                                   ELSE Append(calls, info)
                       /\ IF SellQtyCheck(qty_rounded, price, f) # "ok"
                          THEN /\ Leave("rules")
                               /\ op' = [op EXCEPT !.filters = f, !.price = price]
                               /\ UNCHANGED client_order_id
                          ELSE /\ GenerateClientOrderId
                               /\ op' = [op EXCEPT !.qty = qty_rounded,
                                                    !.filters = f, !.price = price]
                               /\ pc' = "place"
                               /\ UNCHANGED outcome

\* random.random() * 0.2: the least and a large value of [0, 0.2)
Jitters == {Zero, <<19, 100>>}

\* time.sleep(delay + random.random() * 0.2); delay = min(2.0, delay * 1.5)
Sleep(o, jitter) ==
    [o EXCEPT !.slept = Append(o.slept, RAdd(o.delay, jitter)),
              !.delay = RMin(R(2), RMul(o.delay, <<3, 2>>))]

\* one iteration of the retry loop ended with response r; TradeExecutor
\* sleeps after every failed attempt, LiveOrderExecutor not after the last
Iteration(r) ==
    IF r # NoResponse
    THEN /\ resp' = r
         /\ attempt' = attempt
         /\ pc' = IF r.status # "FILLED" THEN "poll" ELSE "finalize"
         /\ UNCHANGED <<outcome, op>>
    ELSE IF attempt < Retries(config)
    THEN /\ resp' = NoResponse
         /\ attempt' = attempt + 1
         /\ pc' = "place"
         /\ \E jitter \in Jitters : op' = Sleep(op, jitter)
         /\ UNCHANGED outcome
    ELSE /\ resp' = NoResponse
         /\ attempt' = attempt
         /\ IF op.impl = "TE"
            THEN \E jitter \in Jitters : op' = Sleep(op, jitter)
            ELSE UNCHANGED op
         /\ Leave("no_response")

\* fills the exchange will give the order of the running call
Plans == IF op.kind = "buy" THEN BuyFills
         ELSE {<<[price |-> p, qty |-> op.qty]>> : p \in SellPrices}

\* _with_retries_and_status_check / _execute_with_retries: place_fn()
PlaceOrder ==
    /\ pc = "place"
    /\ \E accepted \in BOOLEAN, filled \in BOOLEAN, plan \in Plans,
          reply \in {"resp", "raise", "falsy"} :
         LET key == PlaceKey(client_order_id, attempt)
             order == [clientOrderId |-> key,
                       status |-> IF filled THEN "FILLED" ELSE "NEW",
                       plan |-> plan]
             book == IF accepted THEN Append(exch, order) ELSE exch
         IN  /\ reply = "resp" => accepted
             /\ accepted => ~HasOpen(exch, key)
             /\ ~accepted => (~filled /\ plan = CHOOSE x \in Plans : TRUE)
             /\ exch' = book
             /\ calls' = Append(calls,
                    Call("create_order", key, op.qty,
                         IF reply = "resp" THEN order.status ELSE reply))
             /\ IF reply = "resp"
                THEN Iteration(OrderView(book, Len(book), TRUE))
                ELSE IF reply = "falsy"
                THEN Iteration(NoResponse)
                ELSE /\ pc' = "lookup"
                     /\ UNCHANGED <<resp, attempt, outcome, op>>
    /\ UNCHANGED <<config, mgmt, calc>>
    /\ UNCHANGED <<positions, persisted, client_order_id, nextId, polls,
                   pre, handler>>

\* the except branch of the retry loop: get_all_orders(symbol, limit=5)
RetryLookup ==
    /\ pc = "lookup"
    /\ \E reply \in {"raise", "visible", "hidden"} :
         LET listed == RecentOrders(exch, reply = "visible")
             found == IF reply = "raise" THEN NoResponse
                      ELSE FirstMatch(listed, client_order_id)
         IN  /\ calls' = Append(calls,
                    Call("get_all_orders", client_order_id, Zero,
                         IF reply = "raise" THEN "raise"
                         ELSE SeenStatus(listed, client_order_id)))
             /\ Iteration(found)
    /\ UNCHANGED <<config, mgmt, calc>>
    /\ UNCHANGED <<positions, persisted, client_order_id, nextId, polls,
                   exch, pre, handler>>

\* _poll_order_until_done / _wait_for_execution: one get_order before the
\* deadline. The exchange may have filled the order by then (progress); a fill
\* no reply shows is left to the next query.
PollOrder ==
    /\ pc = "poll"
    /\ polls < MaxPolls
    /\ \E reply \in {"raise", "ok"}, progress \in BOOLEAN :
         LET book == IF progress THEN FillAll(exch) ELSE exch
             last == IF reply = "raise" THEN resp
                     ELSE OrderView(book, resp.orderId, FALSE)
         IN  /\ progress => reply = "ok"
             /\ exch' = book
             /\ calls' = Append(calls,
                    Call("get_order", resp.clientOrderId, Zero,
                         IF reply = "raise" THEN "raise" ELSE last.status))
             /\ resp' = last
             /\ polls' = polls + 1
             /\ pc' = IF reply = "ok" /\ last.status = "FILLED" THEN "finalize"
                      ELSE "poll"
    /\ UNCHANGED <<config, mgmt, calc>>
    /\ UNCHANGED <<positions, persisted, op, client_order_id, nextId, attempt,
                   outcome, pre, handler>>

\* an executor that gives up at the polling timeout
NoFinalLookup(impl, kind) == FALSE

\* whether the executor looks the key up once more after the polling timeout
HasFinalLookup(impl, kind) == impl = "TE" /\ kind = "buy"

\* the polling deadline passes without a FILLED status
PollTimeout ==
    /\ pc = "poll"
    /\ polls >= 1
    /\ pc' = IF HasFinalLookup(op.impl, op.kind) THEN "final_lookup" ELSE "finalize"
    /\ UNCHANGED <<config, mgmt, calc>>
    /\ UNCHANGED <<positions, persisted, op, client_order_id, nextId, attempt,
                   resp, polls, exch, calls, outcome, pre, handler>>

\* market_buy lines 187-197: get_all_orders(symbol, limit=10) by the response's key
FinalLookup ==
    /\ pc = "final_lookup"
    /\ \E reply \in {"raise", "visible", "hidden"}, progress \in BOOLEAN :
         LET book == IF progress THEN FillAll(exch) ELSE exch
             key == resp.clientOrderId
             found == IF reply = "raise" THEN NoResponse
                      ELSE FirstFilledMatch(RecentOrders(book, reply = "visible"), key)
         IN  /\ progress => reply = "visible"
             /\ exch' = book
             /\ calls' = Append(calls,
                    Call("get_all_orders", key, Zero,
                         IF reply = "raise" THEN "raise"
                         ELSE SeenStatus(RecentOrders(book, reply = "visible"), key)))
             /\ resp' = IF found # NoResponse THEN found ELSE resp
             /\ pc' = "finalize"
    /\ UNCHANGED <<config, mgmt, calc>>
    /\ UNCHANGED <<positions, persisted, op, client_order_id, nextId, attempt,
                   polls, outcome, pre, handler>>

----------------------------------------------------------------------------
(* After the order: fills, Position, state file *)

\* market_buy lines 199-240 / post_execution_process for a buy
FinalizeBuy ==
    /\ pc = "finalize"
    /\ op.kind = "buy"
    /\ UNCHANGED <<config, mgmt, calc>>
    /\ UNCHANGED <<op, client_order_id, nextId, attempt, resp, polls, exch,
                   calls, pre, handler>>
    /\ \E k \in Klines :
         IF op.impl = "TE"
         THEN LET f == ComputeFills(resp)
                  sl == InitialStop(f.avg_price, k, BRACKET_K_SL, BRACKET_RR,
                                    ATR_MULTIPLIER)
                  new == Put(positions, op.symbol,
                             BoughtPosition(f.executed_qty, f.avg_price, sl))
              IN  IF IsZeroFill(f.executed_qty)
                  THEN /\ Leave("zero_qty")
                       /\ UNCHANGED <<positions, persisted>>
                  ELSE /\ positions' = new
                       /\ persisted' = SavePositions(new)
                       /\ Leave("success")
         ELSE LET post == PostExecutionProcess(positions, op.symbol, resp, k)
              IN  /\ positions' = post.positions
                  /\ UNCHANGED persisted
                  /\ Leave(IF post.failed THEN "zero_qty" ELSE "success")

\* market_sell lines 339-368 / do_sell_order lines 148-157 and
\* post_execution_process for a sell
FinalizeSell ==
    /\ pc = "finalize"
    /\ op.kind = "sell"
    /\ UNCHANGED <<config, mgmt, calc>>
    /\ UNCHANGED <<op, client_order_id, nextId, attempt, resp, polls, exch,
                   calls, pre, handler>>
    /\ \E k \in Klines :
         IF op.impl = "TE"
         THEN LET f == ComputeFills(resp)
                  new == Del(positions, op.symbol)
              IN  IF IsZeroFill(f.executed_qty)
                  THEN /\ Leave("zero_qty")
                       /\ UNCHANGED <<positions, persisted>>
                  ELSE /\ positions' = new
                       /\ persisted' = SavePositions(new)
                       /\ Leave("success")
         ELSE LET sold == IF op.partial_exit /\ op.exit_qty # Zero
                          THEN ReduceQty(positions, op.symbol, resp.executedQty)
                          ELSE positions
                  post == PostExecutionProcess(sold, op.symbol, resp, k)
              IN  /\ positions' = post.positions
                  /\ UNCHANGED persisted
                  /\ Leave(IF post.failed THEN "zero_qty" ELSE "success")

----------------------------------------------------------------------------
(* live_trader_gpt.py: position handlers *)

\* action.metadata pyramid_size / averaging_size (0: not given)
AddSizes == Amounts \cup {Zero}
\* action.qty_ratio of a partial exit
ExitRatios == {<<1, 2>>}

\* _handle_position_addition(symbol, action, position) up to its call of
\* _place_buy_order; size is the action's pyramid_size or averaging_size
PositionAddition(symbol, current_price, size, reason) ==
    /\ LET position == positions[symbol]
           spend_amount == IF size # Zero THEN size
                           ELSE RMul(RMul(position.qty, position.entry_price),
                                     <<1, 2>>)
           new_leg == PositionLeg(now, "BUY", RDiv(spend_amount, current_price),
                                  current_price, reason)
           added == AddLeg(position, new_leg)
           h == [kind |-> "add", symbol |-> symbol, position |-> position,
                 before |-> Snapshot, result |-> "skipped", price |-> Zero]
       IN  IF RLe(current_price, Zero) \/ RLt(spend_amount, R(MIN_ORDER_USDT))
           THEN /\ handler' = h
                /\ op' = NoOp
                /\ outcome' = "none"
                /\ calls' = <<>>
                /\ UNCHANGED <<positions, pc>>
           ELSE /\ handler' = [h EXCEPT !.position = added, !.result = "none"]
                /\ positions' = [positions EXCEPT ![symbol] = added]
                /\ op' = [NoOp EXCEPT !.kind = "buy", !.impl = "TE",
                            !.symbol = symbol, !.amount = spend_amount,
                            !.caller = "add"]
                /\ outcome' = "none"
                /\ calls' = <<>>
                /\ pc' = "call_buy"
    /\ UNCHANGED <<config, calc>>
    /\ UNCHANGED <<persisted, client_order_id, nextId, attempt, resp, polls,
                   exch, pre>>

\* the trader hands a BUY_ADD action to _handle_position_addition
HandlePositionAddition ==
    /\ pc = "idle"
    /\ nextId < MaxIntents
    /\ \E symbol \in Symbols, current_price \in CurrentPrices, size \in AddSizes :
         /\ Has(positions, symbol)
         /\ PositionAddition(symbol, current_price, size, "pyramid")
    /\ UNCHANGED mgmt

\* _handle_position_addition after _place_buy_order returned: upsert_position
\* of the Position object the handler was given
HandlePositionAdditionReturn ==
    /\ pc = "add_after"
    /\ persisted' = UpsertPosition(persisted, handler.symbol, handler.position)
    /\ handler' = [handler EXCEPT !.result = "done"]
    /\ pc' = "idle"
    /\ UNCHANGED <<config, mgmt, calc>>
    /\ UNCHANGED <<positions, op, client_order_id, nextId, attempt, resp,
                   polls, exch, calls, outcome, pre>>

\* _handle_partial_exit(symbol, action, position): the exit leg is recorded,
\* then self.executor.market_sell_partial is looked up on TradeExecutor, which
\* has no such method; the AttributeError ends the handler in its except branch
PartialExit(symbol, current_price, meta_qty, qty_ratio, reason) ==
    /\ LET position == positions[symbol]
           exit_qty == IF RLt(Zero, meta_qty) THEN meta_qty
                       ELSE RMul(position.qty, qty_ratio)
           exit_leg == PositionLeg(now, "SELL", exit_qty, current_price, reason)
           marked == [position EXCEPT
                        !.partial_exits = Append(position.partial_exits, exit_leg)]
           h == [kind |-> "partial_exit", symbol |-> symbol, position |-> position,
                 before |-> Snapshot, result |-> "skipped", price |-> Zero]
       IN  IF RLe(current_price, Zero)
              \/ RLt(exit_qty, RDiv(R(MIN_ORDER_USDT), current_price))
           THEN /\ handler' = h
                /\ UNCHANGED positions
           ELSE /\ handler' = [h EXCEPT !.position = marked, !.result = "failed"]
                /\ positions' = [positions EXCEPT ![symbol] = marked]
    /\ op' = NoOp
    /\ outcome' = "none"
    /\ calls' = <<>>
    /\ UNCHANGED <<config, calc>>
    /\ UNCHANGED <<persisted, pc, client_order_id, attempt, resp, polls,
                   exch, pre>>

\* the trader hands a SELL_PARTIAL action to _handle_partial_exit
HandlePartialExit ==
    /\ pc = "idle"
    /\ nextId < MaxIntents
    /\ nextId' = nextId + 1
    /\ \E symbol \in Symbols, current_price \in CurrentPrices,
          meta_qty \in ExitQtys, qty_ratio \in ExitRatios :
         /\ Has(positions, symbol)
         /\ PartialExit(symbol, current_price, meta_qty, qty_ratio, "partial_exit")
    /\ UNCHANGED mgmt

----------------------------------------------------------------------------
(* Position management: models.py limits, strategies/*.py, trader/*_manager.py *)

\* models.py: Position.max_pyramid_legs, Position.min_add_interval (seconds)
max_pyramid_legs == 3
min_add_interval == 3600

\* timedelta.seconds: the seconds of a difference without its whole days
Seconds(delta) == delta % 86400

\* Position.can_add_position
CanAddPosition(p, current_time) ==
    IF Len(p.legs) >= max_pyramid_legs THEN FALSE
    ELSE IF p.legs = <<>> THEN TRUE
    ELSE IF Seconds(current_time - p.legs[Len(p.legs)].timestamp) < min_add_interval
    THEN FALSE
    ELSE TRUE

\* an update that takes every candidate
OverwriteTrailingStop(p, new_price) == [p EXCEPT !.trailing_stop_price = new_price]

\* Position.update_trailing_stop
UpdateTrailingStop(p, new_price) ==
    IF RLt(p.trailing_stop_price, new_price)
    THEN [p EXCEPT !.trailing_stop_price = new_price]
    ELSE p

\* (current_price - entry_price) / entry_price
UnrealizedPct(p, current_price) ==
    RDiv(RSub(current_price, p.entry_price), p.entry_price)

\* max(leg.price for leg in position.legs)
RECURSIVE MaxLegPrice(_)
MaxLegPrice(legs) ==
    IF Len(legs) = 1 THEN legs[1].price
    ELSE RMax(legs[1].price, MaxLegPrice(Tail(legs)))

\* the result None of an evaluation by the named evaluator
ReturnNone(by) == [NoAction EXCEPT !.by = by]

\* an evaluation that looks at the trailing stop before it looks at the adds
TrailFirstPositionAction(p, m, atr_multiplier) ==
    LET new_trail_price == RSub(m.close, RMul(m.atr, atr_multiplier))
        base_spend == RMul(RMul(p.qty, p.entry_price), <<1, 2>>)
    IN  IF p.legs = <<>> \/ RLe(m.atr, Zero) \/ p.entry_price = Zero
        THEN ReturnNone("atr")
        ELSE IF /\ RLt(MaxLegPrice(p.legs), m.close)
                /\ RLt(p.trailing_stop_price, new_trail_price)
        THEN PositionAction("atr", "UPDATE_TRAIL", R(1), new_trail_price, "",
                            Zero, Zero, Zero)
        ELSE IF RLe(<<3, 100>>, UnrealizedPct(p, m.close))
        THEN PositionAction("atr", "BUY_ADD", R(1), Zero, "", base_spend, Zero, Zero)
        ELSE IF RLe(UnrealizedPct(p, m.close), <<-5, 100>>)
        THEN PositionAction("atr", "BUY_ADD", R(1), Zero, "", Zero, base_spend, Zero)
        ELSE ReturnNone("atr")

\* ATRTrailingStopStrategy.get_position_action on the last kline row m; an
\* entry price of 0 makes the return computation raise, which the trader
\* catches: no action
ATRPositionAction(p, m, atr_multiplier) ==
    IF p.legs = <<>> THEN ReturnNone("atr")
    ELSE IF RLe(m.atr, Zero) THEN ReturnNone("atr")
    ELSE IF p.entry_price = Zero THEN ReturnNone("atr")
    ELSE
      LET current_price == m.close
          base_spend == RMul(RMul(p.qty, p.entry_price), <<1, 2>>)
          unrealized_pct == UnrealizedPct(p, current_price)
          highest_price == MaxLegPrice(p.legs)
          new_trail_price == RSub(current_price, RMul(m.atr, atr_multiplier))
      IN  IF RLe(<<3, 100>>, unrealized_pct)
          THEN PositionAction("atr", "BUY_ADD", R(1), Zero, "", base_spend, Zero, Zero)
          ELSE IF RLe(unrealized_pct, <<-5, 100>>)
          THEN PositionAction("atr", "BUY_ADD", R(1), Zero, "", Zero, base_spend, Zero)
          ELSE IF /\ RLt(highest_price, current_price)
                  /\ RLt(p.trailing_stop_price, new_trail_price)
          THEN PositionAction("atr", "UPDATE_TRAIL", R(1), new_trail_price, "",
                              Zero, Zero, Zero)
          ELSE IF RLe(<<5, 100>>, unrealized_pct)
          THEN PositionAction("atr", "SELL_PARTIAL", R(1), Zero, "", Zero, Zero,
                              RMul(p.qty, <<3, 10>>))
          ELSE ReturnNone("atr")

\* CompositeSignalStrategy.get_position_action on the last kline row m, whose
\* score is what self.score(market_data) returns; a division by an entry price
\* of 0 raises, which the trader catches: no action
CompositePositionAction(p, m) ==
    IF p.legs = <<>> THEN ReturnNone("composite")
    ELSE IF RLe(m.atr, Zero) THEN ReturnNone("composite")
    ELSE
      LET current_price == m.close
          score == m.score
          base_spend == RMul(RMul(p.qty, p.entry_price), <<1, 2>>)
          highest_price == MaxLegPrice(p.legs)
          new_trail_price == RSub(highest_price, RMul(m.atr, <<3, 2>>))
          profit_pct == UnrealizedPct(p, current_price)
      IN  IF RLt(<<7, 10>>, score)
          THEN PositionAction("composite", "BUY_ADD", R(1), Zero, "", base_spend,
                              Zero, Zero)
          ELSE IF RLt(score, <<-1, 2>>) /\ p.entry_price = Zero
          THEN ReturnNone("composite")
          ELSE IF /\ RLt(score, <<-1, 2>>)
                  /\ RLt(RDiv(RSub(p.entry_price, current_price), p.entry_price),
                         <<1, 10>>)
          THEN PositionAction("composite", "BUY_ADD", R(1), Zero, "", Zero,
                              base_spend, Zero)
          ELSE IF RLt(p.trailing_stop_price, new_trail_price)
          THEN PositionAction("composite", "UPDATE_TRAIL", R(1), new_trail_price, "",
                              Zero, Zero, Zero)
          ELSE IF /\ RLt(score, <<1, 5>>) /\ RLt(<<-1, 5>>, score)
                  /\ p.entry_price # Zero
                  /\ RLt(<<5, 100>>, profit_pct)
          THEN PositionAction("composite", "SELL_PARTIAL", R(1), Zero, "", Zero, Zero,
                              RMul(p.qty, <<3, 10>>))
          ELSE ReturnNone("composite")

\* PartialExitManager.exit_levels
exit_levels ==
    <<[profit_pct |-> <<5, 100>>, exit_ratio |-> <<3, 10>>, level |-> 1],
      [profit_pct |-> <<10, 100>>, exit_ratio |-> <<3, 10>>, level |-> 2],
      [profit_pct |-> <<15, 100>>, exit_ratio |-> <<4, 10>>, level |-> 3],
      [profit_pct |-> <<20, 100>>, exit_ratio |-> <<3, 10>>, level |-> 4]>>

\* f"partial_exit_level_{level}"
LevelTag(level) ==
    CASE level = 1 -> "partial_exit_level_1"
      [] level = 2 -> "partial_exit_level_2"
      [] level = 3 -> "partial_exit_level_3"
      [] OTHER -> "partial_exit_level_4"

\* str.startswith, for the reasons a leg can carry: among them a level tag is
\* a prefix only of itself
StartsWith(reason, tag) == reason = tag

\* PartialExitManager._already_exited_at_level
AlreadyExitedAtLevel(p, level) ==
    \E i \in DOMAIN p.partial_exits :
        StartsWith(p.partial_exits[i].reason, LevelTag(level))

\* PartialExitManager.should_partial_exit: the index of the first level reached
\* and not yet exited, 0 for None
ShouldPartialExit(p, current_price) ==
    LET unrealized_pct == UnrealizedPct(p, current_price)
        open == {i \in DOMAIN exit_levels :
                    /\ RLe(exit_levels[i].profit_pct, unrealized_pct)
                    /\ ~AlreadyExitedAtLevel(p, exit_levels[i].level)}
    IN  IF open = {} THEN 0 ELSE CHOOSE i \in open : \A j \in open : i <= j

\* PartialExitManager.get_partial_exit_action
PartialExitAction(p, current_price) ==
    IF p.entry_price = Zero THEN ReturnNone("partial_exit_manager")
    ELSE LET i == ShouldPartialExit(p, current_price)
             exit_qty == RMul(p.qty, exit_levels[i].exit_ratio)
         IN  IF i = 0 THEN ReturnNone("partial_exit_manager")
             ELSE IF RLe(exit_qty, Zero) THEN ReturnNone("partial_exit_manager")
             ELSE PositionAction("partial_exit_manager", "SELL_PARTIAL",
                                 exit_levels[i].exit_ratio, Zero,
                                 LevelTag(exit_levels[i].level), Zero, Zero, exit_qty)

\* PositionManager.pyramid_config["size_progression"]
size_progression == <<R(1), <<7, 10>>, <<1, 2>>>>

\* PositionManager.get_pyramid_action at the time current_time
PyramidAction(p, current_price, base_spend, current_time) ==
    IF ~CanAddPosition(p, current_time) THEN ReturnNone("position_manager")
    ELSE IF p.entry_price = Zero THEN ReturnNone("position_manager")
    ELSE IF RLt(UnrealizedPct(p, current_price), <<3, 100>>)
    THEN ReturnNone("position_manager")
    ELSE LET leg_count == Len(p.legs)
             pyramid_size == IF leg_count >= Len(size_progression) THEN Zero
                             ELSE RMul(base_spend, size_progression[leg_count + 1])
         IN  IF RLe(pyramid_size, Zero) THEN ReturnNone("position_manager")
             ELSE PositionAction("position_manager", "BUY_ADD", <<1, 2>>, Zero,
                                 "pyramiding", pyramid_size, Zero, Zero)

\* PositionManager.get_averaging_action at the time current_time
AveragingAction(p, current_price, base_spend, current_time) ==
    IF ~CanAddPosition(p, current_time) THEN ReturnNone("position_manager")
    ELSE IF p.entry_price = Zero THEN ReturnNone("position_manager")
    ELSE IF RLt(<<-5, 100>>, UnrealizedPct(p, current_price))
    THEN ReturnNone("position_manager")
    ELSE LET averaging_size == RMul(base_spend, <<1, 2>>)
         IN  IF RLe(averaging_size, Zero) THEN ReturnNone("position_manager")
             ELSE PositionAction("position_manager", "BUY_ADD", <<3, 10>>, Zero,
                                 "averaging_down", Zero, averaging_size, Zero)

----------------------------------------------------------------------------
(* The position-management cycle of the trader: a position action is
   evaluated on the held position, then handed to its handler *)

\* Close of the last kline row
ClosePrices == {R(94), R(102), R(106), R(112)}
\* atr of the last kline row (0: not yet computable)
Atrs == {Zero, R(4)}
\* CompositeSignalStrategy.score: neutral, strongly positive, strongly negative
Scores == {Zero, <<4, 5>>, <<-3, 5>>}
\* seconds between one evaluation and the next
Elapsed == {0, 3600}
\* base_spend handed to the PositionManager
BaseSpends == {R(100)}
\* new_stop_price handed to OrderManager.update_trailing_stop
StopCandidates == {Zero, R(90), R(97), R(150)}

\* TrailingStopManager.config: activation_profit, atr_multiplier
activation_profit == <<2, 100>>
trail_atr_multiplier == R(1)

\* TrailingStopManager.should_activate_trailing
ShouldActivateTrailing(p, current_price) ==
    RLe(activation_profit, UnrealizedPct(p, current_price))

\* TrailingStopManager.update_trailing_stop: the position with the highest
\* price it records, and the stop the call returns
ManagerUpdateTrailingStop(p, current_price, atr) ==
    IF ~ShouldActivateTrailing(p, current_price)
    THEN [position |-> p, stop |-> p.trailing_stop_price]
    ELSE LET q == IF RLt(p.highest_price, current_price)
                  THEN [p EXCEPT !.highest_price = current_price] ELSE p
             new_trail == RMul(q.highest_price,
                               RSub(R(1), RDiv(RMul(trail_atr_multiplier, atr),
                                               current_price)))
         IN  [position |-> q,
              stop |-> IF RLt(q.trailing_stop_price, new_trail) THEN new_trail
                       ELSE q.trailing_stop_price]

\* TrailingStopManager.get_trailing_update_action: should_update_trailing,
\* then the action; a division by an entry price of 0 raises: no action
TrailingUpdateAction(p, current_price, atr) ==
    IF p.entry_price = Zero
    THEN [position |-> p, action |-> ReturnNone("trailing")]
    ELSE LET u == ManagerUpdateTrailingStop(p, current_price, atr)
         IN  IF /\ ShouldActivateTrailing(p, current_price)
                /\ RLt(p.trailing_stop_price, u.stop)
             THEN [position |-> u.position,
                   action |-> PositionAction("trailing", "UPDATE_TRAIL", R(1), u.stop,
                                             "trailing_stop_update", Zero, Zero, Zero)]
             ELSE [position |-> u.position, action |-> ReturnNone("trailing")]

\* an evaluation may start: no order running, the last action dispatched
CanEvaluate ==
    /\ pc = "idle"
    /\ ~action.pending
    /\ cycle < MaxCycles

\* the evaluation at `now + dt` on the row m returned result
Evaluated(result, m, dt) ==
    /\ now' = now + dt
    /\ cycle' = cycle + 1
    /\ market' = m
    /\ action' = result
    /\ UNCHANGED <<config, positions, persisted, exec, calc, run>>

\* strategy.get_position_action(market_data, current_position), ATR strategy
GetPositionActionATR ==
    /\ CanEvaluate
    /\ \E symbol \in Symbols, close \in ClosePrices, atr \in Atrs, dt \in Elapsed :
         /\ Has(positions, symbol)
         /\ LET m == [close |-> close, atr |-> atr, score |-> Zero]
            IN  Evaluated(ATRPositionAction(positions[symbol], m, ATR_MULTIPLIER), m, dt)

\* strategy.get_position_action(market_data, current_position), composite strategy
GetPositionActionComposite ==
    /\ CanEvaluate
    /\ \E symbol \in Symbols, close \in ClosePrices, atr \in Atrs, score \in Scores,
          dt \in Elapsed :
         /\ Has(positions, symbol)
         /\ LET m == [close |-> close, atr |-> atr, score |-> score]
            IN  Evaluated(CompositePositionAction(positions[symbol], m), m, dt)

\* trailing_manager.get_trailing_update_action(position, current_price, atr)
GetTrailingUpdateAction ==
    /\ CanEvaluate
    /\ \E symbol \in Symbols, close \in ClosePrices, atr \in Atrs, dt \in Elapsed :
         /\ Has(positions, symbol)
         /\ LET m == [close |-> close, atr |-> atr, score |-> Zero]
                r == TrailingUpdateAction(positions[symbol], close, atr)
            IN  /\ now' = now + dt
                /\ cycle' = cycle + 1
                /\ market' = m
                /\ action' = r.action
                /\ positions' = [positions EXCEPT ![symbol] = r.position]
                /\ UNCHANGED <<config, persisted, exec, calc, run>>

\* PartialExitManager.get_partial_exit_action(position, current_price)
GetPartialExitAction ==
    /\ CanEvaluate
    /\ \E symbol \in Symbols, close \in ClosePrices, dt \in Elapsed :
         /\ Has(positions, symbol)
         /\ LET m == [close |-> close, atr |-> Zero, score |-> Zero]
            IN  Evaluated(PartialExitAction(positions[symbol], close), m, dt)

\* PositionManager.get_pyramid_action(position, current_price, base_spend)
GetPyramidAction ==
    /\ CanEvaluate
    /\ \E symbol \in Symbols, close \in ClosePrices, base_spend \in BaseSpends,
          dt \in Elapsed :
         /\ Has(positions, symbol)
         /\ LET m == [close |-> close, atr |-> Zero, score |-> Zero]
            IN  Evaluated(PyramidAction(positions[symbol], close, base_spend, now + dt),
                          m, dt)

\* PositionManager.get_averaging_action(position, current_price, base_spend)
GetAveragingAction ==
    /\ CanEvaluate
    /\ \E symbol \in Symbols, close \in ClosePrices, base_spend \in BaseSpends,
          dt \in Elapsed :
         /\ Has(positions, symbol)
         /\ LET m == [close |-> close, atr |-> Zero, score |-> Zero]
            IN  Evaluated(AveragingAction(positions[symbol], close, base_spend, now + dt),
                          m, dt)

\* data_provider.get_current_price when a handler runs: the close the
\* evaluation saw, or 0.0 when the ticker cannot be read
HandlerPrices == {Zero, market.close}

\* a handler has taken the action
Dispatched ==
    /\ action' = [action EXCEPT !.pending = FALSE]
    /\ UNCHANGED <<now, cycle, market, run>>

\* `if action.action_type == "BUY_ADD"`: _handle_position_addition
DispatchPositionAddition ==
    /\ pc = "idle"
    /\ action.pending
    /\ action.action_type = "BUY_ADD"
    /\ \E symbol \in Symbols, current_price \in HandlerPrices :
         /\ Has(positions, symbol)
         /\ PositionAddition(symbol, current_price,
                             IF action.pyramid_size # Zero THEN action.pyramid_size
                             ELSE action.averaging_size,
                             action.reason)
    /\ Dispatched

\* `elif action.action_type == "UPDATE_TRAIL"`: _handle_trailing_stop_update,
\* which raises the stop of the position it was given and upserts it
DispatchTrailingStopUpdate ==
    /\ pc = "idle"
    /\ action.pending
    /\ action.action_type = "UPDATE_TRAIL"
    /\ \E symbol \in Symbols :
         /\ Has(positions, symbol)
         /\ LET updated == UpdateTrailingStop(positions[symbol], action.price)
            IN  /\ positions' = [positions EXCEPT ![symbol] = updated]
                /\ persisted' = UpsertPosition(persisted, symbol, updated)
                /\ handler' = [kind |-> "trail", symbol |-> symbol,
                               position |-> updated, before |-> Snapshot,
                               result |-> "done", price |-> action.price]
    /\ Dispatched
    /\ UNCHANGED <<config, calc, pc, op, client_order_id, nextId, attempt, resp,
                   polls, exch, calls, outcome, pre>>

\* `elif action.action_type == "SELL_PARTIAL"`: _handle_partial_exit
DispatchPartialExit ==
    /\ pc = "idle"
    /\ action.pending
    /\ action.action_type = "SELL_PARTIAL"
    /\ \E symbol \in Symbols, current_price \in HandlerPrices :
         /\ Has(positions, symbol)
         /\ PartialExit(symbol, current_price, action.exit_qty, action.qty_ratio,
                        action.reason)
    /\ Dispatched
    /\ UNCHANGED nextId

\* OrderManager._validate_stop_price: the candidate is positive and below a
\* positive entry price
ValidStopPrice(p, new_stop_price) ==
    /\ RLt(Zero, new_stop_price)
    /\ ~(RLt(Zero, p.entry_price) /\ RLe(p.entry_price, new_stop_price))

\* OrderManager.update_trailing_stop(symbol, position, new_stop_price): an
\* invalid candidate raises OrderError and leaves the position as it is
OrderManagerUpdateTrailingStop ==
    /\ CanEvaluate
    /\ \E symbol \in Symbols, new_stop_price \in StopCandidates :
         /\ Has(positions, symbol)
         /\ LET position == positions[symbol]
                valid == ValidStopPrice(position, new_stop_price)
                updated == IF valid THEN UpdateTrailingStop(position, new_stop_price)
                           ELSE position
            IN  /\ positions' = [positions EXCEPT ![symbol] = updated]
                /\ handler' = [kind |-> "stop_update", symbol |-> symbol,
                               position |-> updated, before |-> Snapshot,
                               result |-> IF valid THEN "done" ELSE "failed",
                               price |-> new_stop_price]
    /\ cycle' = cycle + 1
    /\ UNCHANGED <<config, calc, persisted, now, market, action, run, pc, op,
                   client_order_id, nextId, attempt, resp, polls, exch, calls,
                   outcome, pre>>

----------------------------------------------------------------------------
(* trader/position_sizer.py and trader/risk_manager.py: the pure functions *)

\* a confidence that keeps the sign of the score
SignedConfidence(score, max_score) ==
    RMin(R(1), RMax(Zero, RDiv(score, max_score)))

\* min(1.0, max(0.0, abs(score) / max_score))
Confidence(score, max_score) ==
    RMin(R(1), RMax(Zero, RDiv(<<Abs(score[1]), score[2]>>, max_score)))

\* kelly_position_size
KellyPositionSize(capital, win_rate, avg_win, avg_loss, score, max_score, f_max, pos_min, pos_max) ==
    IF RLe(capital, Zero) THEN Zero
    ELSE IF RLe(avg_win, Zero) \/ RLe(avg_loss, Zero) \/ RLe(max_score, Zero) THEN Zero
    ELSE LET p == RMax(Zero, RMin(R(1), win_rate))
             q == RSub(R(1), p)
             b == RDiv(avg_win, avg_loss)
             f_star == RMax(Zero, RMin(RDiv(RSub(RMul(b, p), q), b), f_max))
             confidence == Confidence(score, max_score)
             fraction == RMax(pos_min, RMin(RMul(f_star, confidence), pos_max))
         IN  IF RLe(b, Zero) THEN Zero ELSE RMul(capital, fraction)

\* the arguments the functions are called with
Capitals == {R(0), R(1000)}
WinRates == {<<3, 10>>, <<6, 10>>, <<3, 2>>}
AvgWins == {R(0), R(1), R(2)}
AvgLosses == {R(0), R(1)}
SizerScores == {R(-2), <<-1, 2>>, R(0), <<1, 2>>, <<4, 5>>, R(2)}
MaxScores == {R(0), R(1)}
FMaxes == {<<1, 5>>, R(1)}
PosMins == {R(0), <<1, 2>>}
PosMaxes == {<<1, 5>>, R(1)}
Entries == {R(100)}
BracketAtrs == {R(-1), R(0), R(2)}
Sides == {"long", "short", "flat"}
StopMultipliers == {R(-1), R(2)}
RewardRatios == {R(-1), <<3, 2>>}

\* a call of kelly_position_size that has not run yet, with a second score
\* for the same remaining arguments
KellyCalls ==
    [fn : {"kelly_position_size"}, done : {FALSE},
     capital : Capitals, win_rate : WinRates, avg_win : AvgWins,
     avg_loss : AvgLosses, score : SizerScores, other_score : SizerScores,
     max_score : MaxScores, f_max : FMaxes, pos_min : PosMins, pos_max : PosMaxes,
     size : {Zero}, other_size : {Zero}]

\* a call of compute_initial_bracket that has not run yet
BracketCalls ==
    [fn : {"compute_initial_bracket"}, done : {FALSE},
     entry : Entries, atr : BracketAtrs, side : Sides, k_sl : StopMultipliers,
     rr : RewardRatios, bracket : {[ok |-> FALSE, sl |-> Zero, tp |-> Zero]}]

\* kelly_position_size(...) returns, for the score and for the other score
CallKellyPositionSize ==
    /\ calc.fn = "kelly_position_size"
    /\ ~calc.done
    /\ LET Size(s) == KellyPositionSize(calc.capital, calc.win_rate, calc.avg_win,
                                        calc.avg_loss, s, calc.max_score,
                                        calc.f_max, calc.pos_min, calc.pos_max)
       IN  calc' = [calc EXCEPT !.done = TRUE,
                                !.size = Size(calc.score),
                                !.other_size = Size(calc.other_score)]
    /\ UNCHANGED <<config, positions, persisted, exec, mgmt>>

\* compute_initial_bracket(...) returns or raises
CallComputeInitialBracket ==
    /\ calc.fn = "compute_initial_bracket"
    /\ ~calc.done
    /\ calc' = [calc EXCEPT
                  !.done = TRUE,
                  !.bracket = ComputeInitialBracket(calc.entry, calc.atr, calc.side,
                                                    calc.k_sl, calc.rr)]
    /\ UNCHANGED <<config, positions, persisted, exec, mgmt>>

\* the fills an order response can carry: with or without a commission, with
\* or without a commission asset, the asset possibly null
FillItems ==
    { [price |-> R(100), qty |-> <<1, 100>>],
      [price |-> R(102), qty |-> <<1, 50>>],
      [price |-> R(100), qty |-> Zero],
      [price |-> R(100), qty |-> <<1, 100>>, commission |-> <<1, 1000>>, commissionAsset |-> "BNB"],
      [price |-> R(102), qty |-> <<1, 50>>, commission |-> <<1, 500>>, commissionAsset |-> "USDT"],
      [price |-> R(102), qty |-> <<1, 50>>, commission |-> <<1, 500>>, commissionAsset |-> None],
      [price |-> R(102), qty |-> <<1, 50>>, commission |-> <<1, 500>>] }

MaxFills == 3

\* the responses _compute_fills is called with
FillResponses ==
    [fills : UNION {[1..n -> FillItems] : n \in 0..MaxFills},
     executedQty : {Zero, R(2)}, cummulativeQuoteQty : {Zero, R(250)}]

\* a call of _compute_fills that has not run yet
FillCalls ==
    [fn : {"_compute_fills"}, done : {FALSE}, resp : FillResponses,
     result : {[avg_price |-> Zero, executed_qty |-> Zero, total_fee |-> Zero, fee_asset |-> None]}]

\* _compute_fills(resp) returns
CallComputeFills ==
    /\ calc.fn = "_compute_fills"
    /\ ~calc.done
    /\ calc' = [calc EXCEPT !.done = TRUE, !.result = ComputeFills(calc.resp)]
    /\ UNCHANGED <<config, positions, persisted, exec, mgmt>>

\* the quantities and step sizes round_qty_to_step is called with; two steps
\* are finer than 10^-8
RoundQtys == {Zero, <<3, 500000000>>, <<1, 100000000>>, <<37, 10>>, R(3)}
RoundSteps == {R(-1), Zero, <<1, 2>>, <<1, 1000>>, <<1, 100000000>>, <<3, 500000000>>, <<1, 250000000>>}

\* a call of round_qty_to_step that has not run yet
RoundCalls ==
    [fn : {"round_qty_to_step"}, done : {FALSE}, qty : RoundQtys,
     step_size : RoundSteps, rounded : {Zero}]

\* round_qty_to_step(qty, step_size) returns
CallRoundQtyToStep ==
    /\ calc.fn = "round_qty_to_step"
    /\ ~calc.done
    /\ calc' = [calc EXCEPT !.done = TRUE,
                            !.rounded = RoundQtyToStep(calc.qty, calc.step_size)]
    /\ UNCHANGED <<config, positions, persisted, exec, mgmt>>

\* the ceilings and quotes _is_slippage_within_limit is called with; the
\* last quote has a spread of exactly 100 bps
GuardCeilings == {-5, 0, 5, 10, 50, 100}
GuardQuotes == Quotes \cup {[ok |-> TRUE, bid |-> R(199), ask |-> R(201)]}

\* a call of _is_slippage_within_limit that has not run yet
SlippageCalls ==
    [fn : {"_is_slippage_within_limit"}, done : {FALSE},
     max_slippage_bps : GuardCeilings, tick : GuardQuotes, within : {FALSE}]

\* _is_slippage_within_limit(symbol) returns
CallIsSlippageWithinLimit ==
    /\ calc.fn = "_is_slippage_within_limit"
    /\ ~calc.done
    /\ calc' = [calc EXCEPT
                  !.done = TRUE,
                  !.within = IsSlippageWithinLimit(calc.max_slippage_bps, calc.tick)]
    /\ UNCHANGED <<config, positions, persisted, exec, mgmt>>

----------------------------------------------------------------------------
(* The kill switch as an attribute that is set while the trader runs *)

\* executor.kill_switch = True: the attribute is assigned from outside the
\* executor, here by the operator while an order may be under way
ActivateKillSwitch ==
    /\ ~config.kill_switch
    /\ config' = [config EXCEPT !.kill_switch = TRUE]
    /\ UNCHANGED <<positions, persisted, exec, mgmt, calc>>

----------------------------------------------------------------------------
(* live_trader_gpt.py: the trading cycle *)

MAX_CONCURRENT_POS == 3

\* executor.get_usdt_balance()
Balances == {R(5), R(1000)}
\* strategy.get_signal(market_data, current_position)
Signals == {"BUY", "SELL", "HOLD"}
\* _calculate_position_size, or the fallback max(MIN_ORDER_USDT, 0.0)
SpendAmounts == {R(MIN_ORDER_USDT), R(100)}

\* _find_and_execute_entries, for the symbol of the loop: a balance at or under
\* the minimum ends the cycle, a held symbol (or a full book) is skipped by
\* `continue`; otherwise the signal is read with current_position =
\* positions.get(sym), get_position_action is asked only for a truthy
\* current_position, a BUY signal goes to _place_buy_order (next step) and a
\* SELL signal to market_sell, which returns at once for a symbol without a
\* position; the action found is left pending for its handler
EntriesWithBalance(usdt_bal) ==
    /\ pc = "idle"
    /\ ~action.pending
    /\ cycle < MaxCycles
    /\ \E symbol \in Symbols, close \in ClosePrices,
          atr \in Atrs, signal \in Signals, spend_amount \in SpendAmounts :
         LET m == [close |-> close, atr |-> atr, score |-> Zero]
             skipped == \/ RLe(usdt_bal, R(MIN_ORDER_USDT))
                        \/ Has(positions, symbol)
                        \/ Cardinality(DOMAIN positions) >= MAX_CONCURRENT_POS
             current_position == IF Has(positions, symbol) THEN positions[symbol]
                                 ELSE None
             asked == ~skipped /\ current_position # None
         IN  /\ cycle' = cycle + 1
             /\ now' = now
             /\ market' = IF skipped THEN NoMarket ELSE m
             /\ action' = IF asked
                          THEN ATRPositionAction(current_position, m, ATR_MULTIPLIER)
                          ELSE NoAction
             /\ IF ~skipped /\ signal = "BUY"
                THEN /\ pc' = "call_buy"
                     /\ op' = [NoOp EXCEPT !.symbol = symbol, !.amount = spend_amount]
                ELSE UNCHANGED <<pc, op>>
             /\ UNCHANGED <<config, positions, persisted, calc, run,
                            client_order_id, nextId, attempt, resp, polls, exch,
                            calls, outcome, pre, handler>>

\* one cycle of _find_and_execute_entries on the balance the account shows
FindAndExecuteEntries == \E usdt_bal \in Balances : EntriesWithBalance(usdt_bal)

----------------------------------------------------------------------------
(* models.py, core/position_manager.py: can_add_position as a function *)

\* seconds between the last leg and the call, up to two days
AddElapsed == {0, 1800, 3600, 86399, 86400, 88200, 90000, 172800}
\* timestamp of the legs
LegTimes == {0, 600}

\* PositionCalculator.can_add_position(current_legs, max_legs,
\* min_interval_seconds) at clock time utcnow: the flag of the returned pair
CalculatorCanAddPosition(current_legs, max_legs, min_interval_seconds, utcnow) ==
    IF Len(current_legs) >= max_legs THEN FALSE
    ELSE IF current_legs = <<>> THEN TRUE
    ELSE LET last_leg_time == current_legs[Len(current_legs)].timestamp
             time_since_last == Seconds(utcnow - last_leg_time)
         IN  ~(time_since_last < min_interval_seconds)

\* a position with n BUY legs of one unit, all added at time t
LeggedPosition(n, t) ==
    [NewPosition(Zero, Zero, Zero, t) EXCEPT
       !.legs = [i \in 1..n |-> PositionLeg(t, "BUY", R(1), R(100), "entry")]]

\* a call of can_add_position that has not run yet
CanAddCalls ==
    [fn : {"can_add_position"}, done : {FALSE},
     by : {"Position", "PositionCalculator"},
     n_legs : 0..(max_pyramid_legs + 1), last_leg_time : LegTimes,
     elapsed : AddElapsed, can_add : {FALSE}]

\* can_add_position(...) returns
CallCanAddPosition ==
    /\ calc.fn = "can_add_position"
    /\ ~calc.done
    /\ LET p == LeggedPosition(calc.n_legs, calc.last_leg_time)
           current_time == calc.last_leg_time + calc.elapsed
       IN  calc' = [calc EXCEPT
                      !.done = TRUE,
                      !.can_add = IF calc.by = "Position"
                                  THEN CanAddPosition(p, current_time)
                                  ELSE CalculatorCanAddPosition(p.legs, max_pyramid_legs,
                                           min_add_interval, current_time)]
    /\ UNCHANGED <<config, positions, persisted, exec, mgmt>>

----------------------------------------------------------------------------
(* live_trader_gpt.py, improved_live_trader.py, trader/trading_engine.py:
   the run loop of a SIMULATED trader over several symbols *)

\* SYMBOLS / config.symbols in the order the loops visit them
RunSymbols == <<"BTCUSDT", "ETHUSDT", "BNBUSDT", "SOLUSDT">>
RunSymbolSet == {RunSymbols[i] : i \in DOMAIN RunSymbols}
\* the three classes with a run loop
Traders == {"LiveTrader", "ImprovedLiveTrader", "TradingEngine"}
\* data_provider.get_current_price during a cycle
RunPrices == {R(90), R(100)}
\* the prices of all symbols at one moment: the market moves as a whole
MarketPrices == {[s \in RunSymbolSet |-> p] : p \in RunPrices}
\* strategy.get_signal for a symbol without a position
EntrySignals == {"BUY", "HOLD"}
\* the amount an entry spends
RunSpend == R(100)

\* TradeExecutor.market_buy, SIMULATED branch, on a kline row without atr
\* column whose Close is the current price
SimulatedBuy(ps, symbol, usdt, price) ==
    LET k == [close |-> price, has_atr |-> FALSE, atr |-> Zero]
        sl == InitialStop(k.close, k, BRACKET_K_SL, BRACKET_RR, ATR_MULTIPLIER)
    IN  IF RLe(price, Zero) THEN ps
        ELSE Put(ps, symbol, BoughtPosition(RDiv(usdt, price), k.close, sl))

\* a sell that leaves the book as it is
KeptBySell(ps, symbol) == ps

\* TradeExecutor.market_sell, SIMULATED branch
SimulatedSell(ps, symbol) == IF Has(ps, symbol) THEN Del(ps, symbol) ELSE ps

\* the level the trader's stop check compares the price with
StopLevel(trader, p) ==
    IF trader = "ImprovedLiveTrader" THEN p.trailing_stop_price ELSE p.stop_price

\* _check_stops / _check_stop_losses: every held symbol whose price is
\* positive and at or under the level is sold
CheckedStops(trader, ps, price) ==
    LET hit == {s \in DOMAIN ps : /\ RLt(Zero, price[s])
                                  /\ RLe(price[s], StopLevel(trader, ps[s]))}
    IN  [s \in DOMAIN ps \ hit |-> ps[s]]

\* the loop of _find_and_execute_entries from the i-th symbol on: a held
\* symbol or a full count is skipped, a BUY is placed and counted
RECURSIVE CountedEntries(_, _, _, _, _)
CountedEntries(ps, i, concurrent, signal, price) ==
    IF i > Len(RunSymbols) THEN ps
    ELSE LET sym == RunSymbols[i]
         IN  IF Has(ps, sym) \/ concurrent >= MAX_CONCURRENT_POS
             THEN CountedEntries(ps, i + 1, concurrent, signal, price)
             ELSE IF signal[sym] = "BUY"
             THEN CountedEntries(SimulatedBuy(ps, sym, RunSpend, price[sym]), i + 1,
                                 concurrent + 1, signal, price)
             ELSE CountedEntries(ps, i + 1, concurrent, signal, price)

\* the loop of TradingEngine._execute_trading_cycle from the i-th symbol on:
\* only a held symbol is skipped
RECURSIVE EngineEntries(_, _, _, _)
EngineEntries(ps, i, signal, price) ==
    IF i > Len(RunSymbols) THEN ps
    ELSE LET sym == RunSymbols[i]
         IN  IF Has(ps, sym) THEN EngineEntries(ps, i + 1, signal, price)
             ELSE IF signal[sym] = "BUY"
             THEN EngineEntries(SimulatedBuy(ps, sym, RunSpend, price[sym]), i + 1,
                                signal, price)
             ELSE EngineEntries(ps, i + 1, signal, price)

\* the entries of one cycle: the balance test, then the trader's loop
\* (TradingEngine tests the size of the book once, before its loop)
CycleEntries(trader, ps, usdt_bal, signal, price) ==
    IF RLe(usdt_bal, R(MIN_ORDER_USDT)) THEN ps
    ELSE IF trader = "TradingEngine"
    THEN IF Cardinality(DOMAIN ps) >= MAX_CONCURRENT_POS THEN ps
         ELSE EngineEntries(ps, 1, signal, price)
    ELSE CountedEntries(ps, 1, Cardinality(DOMAIN ps), signal, price)

\* the executor saves the book after every buy and every sell
SavedAfter(ps) ==
    /\ positions' = ps
    /\ persisted' = IF ps = positions THEN persisted ELSE SavePositions(ps)

\* run(): `while self._running:` is entered and the stops are checked
CheckStops ==
    /\ run.at = "while"
    /\ run.running
    /\ cycle < MaxCycles
    /\ \E price \in MarketPrices :
         SavedAfter(CheckedStops(run.trader, positions, price))
    /\ run' = [run EXCEPT !.at = "entries"]
    /\ UNCHANGED <<config, exec, calc, now, cycle, market, action>>

\* the second half of the cycle: the entries, then the sleep
FindEntries ==
    /\ run.at = "entries"
    /\ \E usdt_bal \in Balances, signal \in [RunSymbolSet -> EntrySignals],
          price \in MarketPrices :
         SavedAfter(CycleEntries(run.trader, positions, usdt_bal, signal, price))
    /\ run' = [run EXCEPT !.at = "while"]
    /\ cycle' = cycle + 1
    /\ UNCHANGED <<config, exec, calc, now, market, action>>

\* stop(), or the handler of SIGINT / SIGTERM, at any point of the loop
Stop ==
    /\ run.at \in {"while", "entries"}
    /\ run.running
    /\ run' = [run EXCEPT !.running = FALSE]
    /\ UNCHANGED <<config, positions, persisted, exec, calc, now, cycle, market,
                   action>>

\* `for sym in keys: self._place_sell_order(sym)`
RECURSIVE SellEach(_, _)
SellEach(ps, keys) ==
    IF keys = <<>> THEN ps ELSE SellEach(SimulatedSell(ps, Head(keys)), Tail(keys))

\* list(self.positions.keys())
Keys(ps) == SelectSeq(RunSymbols, LAMBDA s : Has(ps, s))

\* the loop test fails: _shutdown sells every symbol of the book
Shutdown ==
    /\ run.at = "while"
    /\ ~run.running
    /\ SavedAfter(SellEach(positions, Keys(positions)))
    /\ run' = [run EXCEPT !.at = "exited"]
    /\ handler' = [NoHandler EXCEPT !.kind = "shutdown", !.before = Snapshot,
                                    !.result = "done"]
    /\ UNCHANGED <<config, calc, now, cycle, market, action, pc, op,
                   client_order_id, nextId, attempt, resp, polls, exch, calls,
                   outcome, pre>>

----------------------------------------------------------------------------
(* models.py add_leg after the partial sell of an executor *)

\* quantity of the position, quantity a partial sell executes, quantity of
\* the leg added afterwards
HeldQtys == {R(3), R(5)}
SoldQtys == {R(1), R(2)}
LegQtys == {R(1), R(2)}

\* a call of add_leg on a position after a partial sell, not run yet
AddLegCalls ==
    [fn : {"add_leg"}, done : {FALSE}, held : HeldQtys, sold : SoldQtys,
     leg_qty : LegQtys, by : {"LOE", "SIM"}, qty_sold : {Zero}, qty_added : {Zero}]

\* do_sell_order(symbol, positions, partial_exit=True, exit_qty=sold) of
\* either executor, then position.add_leg(leg): the qty after each of the two
CallAddLeg ==
    /\ calc.fn = "add_leg"
    /\ ~calc.done
    /\ LET symbol == "BTCUSDT"
           ps == Put(EmptyMap, symbol, NewPosition(calc.held, R(100), R(94), 0))
           sold == IF calc.by = "SIM" THEN SimDoSell(ps, symbol, TRUE, calc.sold)
                   ELSE IF calc.sold # Zero THEN ReduceQty(ps, symbol, calc.sold)
                   ELSE ps
           leg == PositionLeg(3600, "BUY", calc.leg_qty, R(100), "pyramid")
           added == AddLeg(sold[symbol], leg)
       IN  calc' = [calc EXCEPT !.done = TRUE,
                                !.qty_sold = sold[symbol].qty,
                                !.qty_added = added.qty]
    /\ UNCHANGED <<config, positions, persisted, exec, mgmt>>

----------------------------------------------------------------------------
(* The stop check of the run loop on a position whose stop was trailed *)

\* data_provider.get_current_price when the stops are checked
StopCheckPrices == {Zero, R(92), R(96)}

\* _check_stops / _check_stop_losses of the named trader between two
\* evaluations; market_sell does nothing for a LIVE executor under the kill
\* switch
StopCheck ==
    /\ pc = "idle"
    /\ ~action.pending
    /\ \E trader \in Traders, symbol \in Symbols, current_price \in StopCheckPrices :
         /\ Has(positions, symbol)
         /\ LET price == [s \in DOMAIN positions |-> current_price]
                checked == IF KillSwitchBlocks(config) THEN positions
                           ELSE CheckedStops(trader, positions, price)
            IN  /\ SavedAfter(checked)
                /\ handler' = [kind |-> "check_stops", symbol |-> symbol,
                               position |-> positions[symbol], before |-> Snapshot,
                               result |-> IF Has(checked, symbol) THEN "kept"
                                          ELSE "sold",
                               price |-> current_price]
                /\ run' = [NoRun EXCEPT !.trader = trader]
    /\ UNCHANGED <<config, calc, now, cycle, market, action, pc, op,
                   client_order_id, nextId, attempt, resp, polls, exch, calls,
                   outcome, pre>>

----------------------------------------------------------------------------
(* Specification *)

Next ==
    \/ MarketBuy
    \/ PlaceBuyOrder
    \/ MarketSell
    \/ ExecuteBuyOrder
    \/ ExecuteSellOrder
    \/ CheckSlippage
    \/ SellRules
    \/ PlaceOrder
    \/ RetryLookup
    \/ PollOrder
    \/ PollTimeout
    \/ FinalLookup
    \/ FinalizeBuy
    \/ FinalizeSell
    \/ HandlePositionAddition
    \/ HandlePositionAdditionReturn
    \/ HandlePartialExit

Spec == Init /\ [][Next]_vars

\* The order execution with a kill switch that can be set at any moment
KillSwitchNext ==
    \/ MarketBuy
    \/ PlaceBuyOrder
    \/ MarketSell
    \/ ExecuteBuyOrder
    \/ ExecuteSellOrder
    \/ CheckSlippage
    \/ SellRules
    \/ PlaceOrder
    \/ RetryLookup
    \/ PollOrder
    \/ PollTimeout
    \/ FinalLookup
    \/ FinalizeBuy
    \/ FinalizeSell
    \/ HandlePositionAddition
    \/ HandlePositionAdditionReturn
    \/ HandlePartialExit
    \/ ActivateKillSwitch

KillSwitchSpec == Init /\ [][KillSwitchNext]_vars

\* The management cycle runs on the position the trader loaded at start, on
\* SIMULATED orders or on LIVE orders stopped by the kill switch.
ManageInit ==
    /\ Init
    /\ persisted # EmptyMap
    /\ config.order_retry = 0
    /\ config.max_slippage_bps = 50
    /\ config.kill_switch = (config.execution_mode = "LIVE")

ManageNext ==
    \/ GetPositionActionATR
    \/ GetPositionActionComposite
    \/ GetPartialExitAction
    \/ GetPyramidAction
    \/ GetAveragingAction
    \/ GetTrailingUpdateAction
    \/ DispatchPositionAddition
    \/ PlaceBuyOrder
    \/ HandlePositionAdditionReturn
    \/ DispatchTrailingStopUpdate
    \/ DispatchPartialExit
    \/ OrderManagerUpdateTrailingStop

ManageSpec == ManageInit /\ [][ManageNext]_vars

\* The management cycle with the stop check of the run loop between the
\* evaluations
StopNext ==
    \/ GetPositionActionATR
    \/ GetPositionActionComposite
    \/ GetPartialExitAction
    \/ GetPyramidAction
    \/ GetAveragingAction
    \/ GetTrailingUpdateAction
    \/ DispatchPositionAddition
    \/ PlaceBuyOrder
    \/ HandlePositionAdditionReturn
    \/ DispatchTrailingStopUpdate
    \/ DispatchPartialExit
    \/ OrderManagerUpdateTrailingStop
    \/ StopCheck

StopSpec == ManageInit /\ [][StopNext]_vars

\* The trading cycle of a SIMULATED trader, from an empty or a loaded book
CycleInit ==
    /\ Init
    /\ config.execution_mode = "SIMULATED"

CycleNext ==
    \/ FindAndExecuteEntries
    \/ PlaceBuyOrder

CycleSpec == CycleInit /\ [][CycleNext]_vars

\* The run loop of a SIMULATED trader, from an empty book to its shutdown
RunInit ==
    /\ config = [execution_mode |-> "SIMULATED", kill_switch |-> FALSE,
                 order_retry |-> 0, max_slippage_bps |-> 0]
    /\ persisted = EmptyMap
    /\ positions = LoadPositions(persisted)
    /\ pc = "idle"
    /\ op = NoOp
    /\ client_order_id = 0
    /\ nextId = 0
    /\ attempt = 0
    /\ resp = NoResponse
    /\ polls = 0
    /\ exch = <<>>
    /\ calls = <<>>
    /\ outcome = "none"
    /\ pre = [positions |-> EmptyMap, persisted |-> EmptyMap]
    /\ handler = NoHandler
    /\ now = 0
    /\ cycle = 0
    /\ market = NoMarket
    /\ action = NoAction
    /\ calc = NoCalc
    /\ run \in [trader : Traders, running : {TRUE}, at : {"while"}]

RunNext ==
    \/ CheckStops
    \/ FindEntries
    \/ Stop
    \/ Shutdown

RunSpec == RunInit /\ [][RunNext]_vars

\* the thread that runs the loop keeps running: a started cycle finishes and
\* a failed loop test is followed by _shutdown
FairRunSpec == RunSpec /\ WF_vars(FindEntries) /\ WF_vars(Shutdown)

\* The pure functions are called on their own, on arguments
\* drawn from the sets above; nothing else of the trader moves.
CalcInit ==
    /\ calc \in KellyCalls \cup BracketCalls \cup FillCalls \cup RoundCalls
               \cup SlippageCalls \cup CanAddCalls \cup AddLegCalls
    /\ config = [execution_mode |-> "SIMULATED", kill_switch |-> FALSE,
                 order_retry |-> 0, max_slippage_bps |-> 0]
    /\ persisted = EmptyMap
    /\ positions = LoadPositions(persisted)
    /\ pc = "idle"
    /\ op = NoOp
    /\ client_order_id = 0
    /\ nextId = 0
    /\ attempt = 0
    /\ resp = NoResponse
    /\ polls = 0
    /\ exch = <<>>
    /\ calls = <<>>
    /\ outcome = "none"
    /\ pre = [positions |-> EmptyMap, persisted |-> EmptyMap]
    /\ handler = NoHandler
    /\ now = 0
    /\ cycle = 0
    /\ market = NoMarket
    /\ action = NoAction
    /\ run = NoRun

CalcNext ==
    \/ CallKellyPositionSize
    \/ CallComputeInitialBracket
    \/ CallComputeFills
    \/ CallRoundQtyToStep
    \/ CallIsSlippageWithinLimit
    \/ CallCanAddPosition
    \/ CallAddLeg

CalcSpec == CalcInit /\ [][CalcNext]_vars

----------------------------------------------------------------------------
(* Properties *)

Live == config.execution_mode = "LIVE"

\* an executor call has begun / has just returned to its caller
Started == op.kind # "none" /\ pc # "call_buy"
Returned == op.kind # "none" /\ pc = RetPc(op.caller)
\* _handle_position_addition has finished after its buy
AfterHandler == op.caller = "add" /\ pc = "idle"

CreateOrderCalls == {i \in DOMAIN calls : calls[i].api = "create_order"}
GetOrderCalls == {i \in DOMAIN calls : calls[i].api = "get_order"}
LookupCalls == {i \in DOMAIN calls : calls[i].api = "get_all_orders"}

\* the first create_order of a LIVE TradeExecutor buy raised and the lookup
\* that followed listed a FILLED order with the key
FirstAttemptReconciled ==
    /\ op.kind = "buy" /\ op.impl = "TE" /\ Live
    /\ CreateOrderCalls # {}
    /\ LET first == CHOOSE i \in CreateOrderCalls : \A j \in CreateOrderCalls : i <= j
       IN  /\ calls[first].got = "raise"
           /\ first + 1 \in DOMAIN calls
           /\ calls[first + 1].api = "get_all_orders"
           /\ calls[first + 1].got = "FILLED"

C2_LookupBeforeEveryResubmission ==
    \A i \in CreateOrderCalls :
        (\E j \in CreateOrderCalls : j < i) =>
            /\ calls[i - 1].api = "get_all_orders"
            /\ calls[i - 1].key = client_order_id
            /\ calls[i - 1].got \in {"raise", "NONE"}

\* C3: the key is generated once per buy or sell call: every create_order and
\* every recent-orders lookup of the call carries the call's one key.
C3_OneKeyPerCall ==
    \A i \in CreateOrderCalls \cup LookupCalls :
        /\ client_order_id # 0
        /\ client_order_id = nextId
        /\ calls[i].key = client_order_id

\* a call that submitted twice and looked the key up in between
C3_Witness ==
    /\ Cardinality(CreateOrderCalls) >= 2
    /\ LookupCalls # {}
    /\ \A i \in CreateOrderCalls \cup LookupCalls : calls[i].key = client_order_id

\* C4: with the kill switch set in LIVE mode a buy or sell returns without a
\* single broker call and with the positions map and the state file as they
\* were; in SIMULATED mode the kill switch does not stop the order.
C4_KillSwitch ==
    /\ (config.kill_switch /\ Live /\ Started /\ ~AfterHandler) =>
          /\ Returned
          /\ calls = <<>>
          /\ outcome \in {"kill_switch", "no_position"}
          /\ positions = pre.positions
          /\ persisted = pre.persisted
    /\ (config.kill_switch /\ ~Live /\ Returned) => outcome # "kill_switch"

\* a LIVE order stopped by the kill switch while a position was open
C4_Witness ==
    /\ config.kill_switch /\ Live /\ Returned
    /\ outcome = "kill_switch"
    /\ Has(positions, op.symbol)

\* C5: after a failed buy or sell the positions map is exactly as before the
\* attempt, for the executor call and for the pyramid / averaging add and the
\* partial exit of LiveTrader.
C5_FailedAttemptLeavesPositions ==
    /\ (Returned /\ outcome # "success") => positions = pre.positions
    /\ (handler.kind = "add" /\ pc = "add_after" /\ outcome # "success") =>
          positions = handler.before.positions
    /\ (handler.kind = "partial_exit" /\ handler.result = "failed") =>
          positions = handler.before.positions

\* a LIVE TradeExecutor buy has returned after polling that never saw FILLED
PolledWithoutFill ==
    /\ op.kind = "buy" /\ op.impl = "TE" /\ Live /\ Returned
    /\ GetOrderCalls # {}
    /\ \A i \in GetOrderCalls : calls[i].got # "FILLED"

ZeroExecuted(r) ==
    \/ r.fills = <<>> /\ RLe(r.executedQty, Zero)
    \/ r.fills # <<>> /\ RLe(SumQty(r.fills), Zero)

\* C7: a LIVE buy or sell whose final order response has executed quantity <= 0
\* fails: the positions map and the state file are as before the call.
C7_ZeroFillFails ==
    (Live /\ Returned /\ resp # NoResponse /\ ZeroExecuted(resp)) =>
        /\ outcome = "zero_qty"
        /\ positions = pre.positions
        /\ persisted = pre.persisted

\* an accepted order that was still unfilled when the executor gave up
C7_Witness ==
    /\ Live /\ Returned
    /\ resp # NoResponse /\ ZeroExecuted(resp)
    /\ resp.status = "NEW"
    /\ outcome = "zero_qty"

\* C8: a successful buy for a symbol that has an open Position keeps the
\* previous legs, appends one BUY leg and adds the executed quantity to qty.
C8_BuyMergesIntoPosition ==
    (Returned /\ op.kind = "buy" /\ outcome = "success"
       /\ Has(pre.positions, op.symbol)) =>
        /\ Has(positions, op.symbol)
        /\ LET old == pre.positions[op.symbol]
               new == positions[op.symbol]
               n == Len(new.legs)
           IN  /\ n = Len(old.legs) + 1
               /\ SubSeq(new.legs, 1, n - 1) = old.legs
               /\ new.legs[n].side = "BUY"
               /\ new.qty = RAdd(old.qty, new.legs[n].qty)

\* C9: after a successful full sell by TradeExecutor.market_sell or by the
\* SimulatedOrderExecutor with partial_exit false the symbol is not in the
\* positions map, and TradeExecutor has saved the reduced map.
C9_FullSellRemovesPosition ==
    (Returned /\ op.kind = "sell" /\ outcome = "success"
       /\ op.impl \in {"TE", "SIM"} /\ ~op.partial_exit) =>
        /\ ~Has(positions, op.symbol)
        /\ op.impl = "TE" => persisted = SavePositions(positions)

\* the quantity a LIVE sell asks for, truncated to the lot step
TruncatedQty ==
    LET requested == IF op.impl = "LOE" /\ op.exit_qty # Zero THEN op.exit_qty
                     ELSE pre.positions[op.symbol].qty
        step == op.filters.lot_step_size
    IN  IF RLe(step, Zero) THEN requested
        ELSE RMul(R(RTrunc(RDiv(requested, step))), step)

\* the truncated quantity breaks the lot or the notional minimum
BelowMinimum ==
    \/ RLe(TruncatedQty, Zero)
    \/ RLt(TruncatedQty, op.filters.lot_min_qty)
    \/ /\ RLt(Zero, op.filters.min_notional)
       /\ RLt(RMul(op.price, TruncatedQty), op.filters.min_notional)

\* C10: a LIVE sell whose truncated quantity is <= 0 or below lot_min_qty, or
\* whose price times truncated quantity is below a positive min_notional, is
\* rejected with no create_order and the position unchanged; any other sell
\* sends the truncated quantity to create_order.
C10_SellRulesBeforeOrder ==
    (op.kind = "sell" /\ Live /\ op.filters.ok) =>
        IF BelowMinimum
        THEN /\ Returned
             /\ outcome = "rules"
             /\ CreateOrderCalls = {}
             /\ positions = pre.positions
        ELSE \A i \in CreateOrderCalls : calls[i].qty = TruncatedQty

\* a sell of 3 units on a step of 2 sent 2 units
C10_Witness ==
    /\ op.kind = "sell" /\ Live /\ op.filters.ok
    /\ ~BelowMinimum
    /\ CreateOrderCalls # {}
    /\ TruncatedQty = R(2)
    /\ pre.positions[op.symbol].qty = R(3)

\* the quote the guard read is present on both sides and its spread over the
\* mid price, in basis points, is above a positive ceiling
SpreadOverCeiling ==
    LET bid == op.tick.bid
        ask == op.tick.ask
    IN  /\ config.max_slippage_bps > 0
        /\ op.tick.ok
        /\ RLt(Zero, bid) /\ RLt(Zero, ask)
        /\ RLt(R(config.max_slippage_bps),
               RMul(RDiv(RSub(ask, bid), RDiv(RAdd(bid, ask), R(2))), R(10000)))

\* a LIVE TradeExecutor call is past its slippage guard
PastSlippageGuard ==
    /\ op.impl = "TE" /\ Live /\ Started
    /\ ~config.kill_switch
    /\ op.kind = "sell" => Has(pre.positions, op.symbol)
    /\ pc # "slippage"

\* C11: a LIVE TradeExecutor buy or sell is blocked by the slippage guard (no
\* create_order, positions unchanged) exactly when the ceiling is positive,
\* bid and ask are both present and > 0 and the spread in basis points of the
\* mid price exceeds the ceiling; otherwise the order proceeds.
C11_SlippageGuard ==
    PastSlippageGuard =>
        /\ (outcome = "slippage") <=> SpreadOverCeiling
        /\ SpreadOverCeiling =>
             /\ CreateOrderCalls = {}
             /\ client_order_id = 0
             /\ positions = pre.positions
        /\ (~SpreadOverCeiling /\ op.kind = "buy") =>
             (pc = "place" \/ CreateOrderCalls # {})
        /\ (~SpreadOverCeiling /\ op.kind = "sell") =>
             (pc = "rules" \/ \E i \in DOMAIN calls : calls[i].api = "get_symbol_info")

\* a sell of an open position stopped by a spread of about 100 basis points
C11_Witness ==
    /\ PastSlippageGuard
    /\ op.kind = "sell"
    /\ outcome = "slippage"
    /\ op.tick.ask = R(101)
    /\ Has(positions, op.symbol)

----------------------------------------------------------------------------
(* Trailing stop *)

\* a step of LiveTrader._handle_trailing_stop_update or of
\* OrderManager.update_trailing_stop
StopUpdateStep == DispatchTrailingStopUpdate \/ OrderManagerUpdateTrailingStop

\* C12: over any sequence of UPDATE_TRAIL dispatches and stop updates, whatever
\* the candidates (rising, then falling), the trailing_stop_price of a position
\* never decreases, and a candidate lower than or equal to the current stop
\* leaves it unchanged.
C12_TrailingStopMonotone ==
    [][StopUpdateStep =>
         \A s \in DOMAIN positions :
           /\ Has(positions', s)
           /\ RLe(positions[s].trailing_stop_price, positions'[s].trailing_stop_price)
           /\ RLe(handler'.price, positions[s].trailing_stop_price) =>
                positions'[s].trailing_stop_price = positions[s].trailing_stop_price]_vars

\* a stop raised from 94 to 97 met the lower candidate 90 and stayed at 97
C12_Witness ==
    /\ handler.kind = "stop_update"
    /\ handler.price = R(90)
    /\ \E s \in DOMAIN positions :
         /\ Has(handler.before.positions, s)
         /\ handler.before.positions[s].trailing_stop_price = R(97)
         /\ positions[s].trailing_stop_price = R(97)

----------------------------------------------------------------------------
(* Partial exits *)

\* the number of profit tiers the return of p at the price has reached
TiersReached(p, current_price) ==
    Cardinality({i \in DOMAIN exit_levels :
                    RLe(exit_levels[i].profit_pct, UnrealizedPct(p, current_price))})

\* a SELL_PARTIAL has been emitted for the position and waits for its handler
PartialExitEmitted(s) ==
    /\ action.pending
    /\ action.action_type = "SELL_PARTIAL"
    /\ positions[s].entry_price # Zero

\* C13: SELL_PARTIAL is emitted at most once per profit tier (5/10/15/20%):
\* when the partial exits recorded in the position's partial-exit legs already
\* number the tiers the price has reached, an evaluation emits nothing.
C13_PartialExitOncePerTier ==
    \A s \in DOMAIN positions :
        PartialExitEmitted(s) =>
            Len(positions[s].partial_exits) < TiersReached(positions[s], market.close)

----------------------------------------------------------------------------
(* Precedence of the position actions *)

\* the branch conditions of get_position_action, each on its own, for the
\* position p and the row m
PyramidDue(by, p, m) ==
    IF by = "atr" THEN RLe(<<3, 100>>, UnrealizedPct(p, m.close))
    ELSE RLt(<<7, 10>>, m.score)

AveragingDue(by, p, m) ==
    IF by = "atr" THEN RLe(UnrealizedPct(p, m.close), <<-5, 100>>)
    ELSE /\ RLt(m.score, <<-1, 2>>)
         /\ RLt(RMul(p.entry_price, <<9, 10>>), m.close)

TrailDue(by, p, m) ==
    IF by = "atr"
    THEN /\ RLt(MaxLegPrice(p.legs), m.close)
         /\ RLt(RAdd(p.trailing_stop_price, RMul(m.atr, ATR_MULTIPLIER)), m.close)
    ELSE RLt(RAdd(p.trailing_stop_price, RMul(m.atr, <<3, 2>>)), MaxLegPrice(p.legs))

PartialDue(by, p, m) ==
    IF by = "atr" THEN RLe(<<5, 100>>, UnrealizedPct(p, m.close))
    ELSE /\ RLt(m.score, <<1, 5>>) /\ RLt(<<-1, 5>>, m.score)
         /\ RLt(<<5, 100>>, UnrealizedPct(p, m.close))

\* first match wins
Precedence(by, p, m) ==
    IF PyramidDue(by, p, m) THEN "pyramid"
    ELSE IF AveragingDue(by, p, m) THEN "averaging"
    ELSE IF TrailDue(by, p, m) THEN "UPDATE_TRAIL"
    ELSE IF PartialDue(by, p, m) THEN "SELL_PARTIAL"
    ELSE "None"

\* which branch an action came from: the adds differ by the metadata key that
\* carries their size
BranchOf(a) ==
    IF a.action_type # "BUY_ADD" THEN a.action_type
    ELSE IF a.pyramid_size # Zero THEN "pyramid"
    ELSE "averaging"

\* the position is open and the row carries a usable ATR
Evaluable(p, m) ==
    /\ p.legs # <<>>
    /\ RLt(Zero, p.entry_price)
    /\ RLt(Zero, p.qty)
    /\ RLt(Zero, m.atr)

\* a step in which a strategy's get_position_action was called
StrategyEvaluation == GetPositionActionATR \/ GetPositionActionComposite

\* C14: a call of get_position_action on an open position leaves the position
\* as it is and returns one action at most, the first in the order pyramid
\* BUY_ADD, averaging BUY_ADD, UPDATE_TRAIL, SELL_PARTIAL whose condition
\* holds, and None when no condition holds.
C14_ActionPrecedence ==
    [][StrategyEvaluation =>
         /\ positions' = positions
         /\ \A s \in DOMAIN positions :
              Evaluable(positions[s], market') =>
                  BranchOf(action') = Precedence(action'.by, positions[s], market')]_vars

\* the ATR strategy returned the pyramid add while the conditions of the
\* trailing update and of the partial exit held as well
C14_Witness ==
    /\ action.pending
    /\ action.by = "atr"
    /\ BranchOf(action) = "pyramid"
    /\ \E s \in DOMAIN positions :
         /\ Evaluable(positions[s], market)
         /\ TrailDue("atr", positions[s], market)
         /\ PartialDue("atr", positions[s], market)

----------------------------------------------------------------------------
(* Adding to a position *)

\* C15: a BUY_ADD is emitted for a position only when it has fewer than
\* max_pyramid_legs legs and at least min_add_interval seconds have passed
\* since its last leg, and no position ever has more than max_pyramid_legs legs.
C15_AddEligibility ==
    \A s \in DOMAIN positions :
        LET legs == positions[s].legs
        IN  /\ Len(legs) <= max_pyramid_legs
            /\ (action.pending /\ action.action_type = "BUY_ADD" /\ legs # <<>>) =>
                 /\ Len(legs) < max_pyramid_legs
                 /\ now - legs[Len(legs)].timestamp >= min_add_interval

----------------------------------------------------------------------------
(* Positions in the map *)

\* the fill a LIVE buy built its Position from
FillOfBuy == ComputeFills(resp)

\* a call has put a Position into the map that was not there, or has replaced one
PositionCreated ==
    /\ Started /\ op.kind = "buy"
    /\ Has(positions, op.symbol)
    /\ ~Has(pre.positions, op.symbol) \/ positions[op.symbol] # pre.positions[op.symbol]

----------------------------------------------------------------------------
(* The state file *)

\* what a position and its reloaded copy must agree on
SameAfterReload(p, q) ==
    /\ q.legs = p.legs
    /\ q.partial_exits = p.partial_exits
    /\ q.status = p.status
    /\ q.qty = p.qty
    /\ q.entry_price = p.entry_price
    /\ q.trailing_stop_price = p.trailing_stop_price
    /\ q.highest_price = p.highest_price

\* C17: saving the positions map and loading it back is a round trip: for
\* every symbol the loaded Position has the same legs in the same order, the
\* same partial-exit legs and status, and the same qty, entry_price,
\* trailing_stop_price and highest_price as the saved one.
C17_SaveLoadRoundTrip ==
    LET loaded == LoadPositions(SavePositions(positions))
    IN  /\ DOMAIN loaded = DOMAIN positions
        /\ \A s \in DOMAIN positions : SameAfterReload(positions[s], loaded[s])

----------------------------------------------------------------------------
(* Position sizing and the initial bracket *)

RAbs(a) == <<Abs(a[1]), a[2]>>

\* kelly_position_size has returned for both scores
KellyReturned == calc.fn = "kelly_position_size" /\ calc.done

\* C18: with every other argument fixed, kelly_position_size is monotonically
\* non-decreasing in |score|: |s1| <= |s2| implies size(s1) <= size(s2), and
\* size(s) = size(-s).
C18_KellyMonotoneInScore ==
    KellyReturned =>
        /\ RLe(RAbs(calc.score), RAbs(calc.other_score)) =>
              RLe(calc.size, calc.other_size)
        /\ RAbs(calc.score) = RAbs(calc.other_score) => calc.size = calc.other_size

\* a score of the other sign and of larger magnitude gives a strictly larger size
C18_Witness ==
    /\ KellyReturned
    /\ calc.score = <<-1, 2>> /\ calc.other_score = <<4, 5>>
    /\ RLt(Zero, calc.size)
    /\ RLt(calc.size, calc.other_size)

\* C19: kelly_position_size never returns more than capital * pos_max, for
\* every win rate, payoff ratio, score, max_score, f_max and pos_min.
C19_KellyNeverAboveCap ==
    KellyReturned => RLe(calc.size, RMul(calc.capital, calc.pos_max))

\* compute_initial_bracket has returned or raised
BracketReturned == calc.fn = "compute_initial_bracket" /\ calc.done

\* C20: compute_initial_bracket returns (entry - k_sl*atr, entry + rr*k_sl*atr)
\* for side long and (entry + k_sl*atr, entry - rr*k_sl*atr) for side short,
\* and raises, returning no bracket, when atr, k_sl or rr is negative or the
\* side is neither long nor short; entry 100, atr 2, k_sl 2, rr 1.5 gives
\* (96, 106) long and (104, 94) short.
C20_InitialBracket ==
    BracketReturned =>
        LET distance == RMul(calc.k_sl, calc.atr)
            reward == RMul(calc.rr, distance)
            invalid == \/ RLt(calc.atr, Zero) \/ RLt(calc.k_sl, Zero)
                       \/ RLt(calc.rr, Zero)
                       \/ calc.side \notin {"long", "short"}
            example == /\ calc.entry = R(100) /\ calc.atr = R(2)
                       /\ calc.k_sl = R(2) /\ calc.rr = <<3, 2>>
        IN  /\ invalid <=> ~calc.bracket.ok
            /\ (~invalid /\ calc.side = "long") =>
                 /\ calc.bracket.sl = RSub(calc.entry, distance)
                 /\ calc.bracket.tp = RAdd(calc.entry, reward)
            /\ (~invalid /\ calc.side = "short") =>
                 /\ calc.bracket.sl = RAdd(calc.entry, distance)
                 /\ calc.bracket.tp = RSub(calc.entry, reward)
            /\ (example /\ calc.side = "long") =>
                 calc.bracket = [ok |-> TRUE, sl |-> R(96), tp |-> R(106)]
            /\ (example /\ calc.side = "short") =>
                 calc.bracket = [ok |-> TRUE, sl |-> R(104), tp |-> R(94)]

\* the short bracket of the example has been computed
C20_Witness ==
    /\ BracketReturned
    /\ calc.side = "short"
    /\ calc.bracket = [ok |-> TRUE, sl |-> R(104), tp |-> R(94)]

----------------------------------------------------------------------------
(* C21..C30 *)

FillsReturned == calc.fn = "_compute_fills" /\ calc.done

\* the two fills (100.00, 0.01) and (102.00, 0.02)
ExampleFills ==
    <<[price |-> R(100), qty |-> <<1, 100>>], [price |-> R(102), qty |-> <<1, 50>>]>>

\* C21: with fills, the executed quantity is the sum of the fill quantities
\* and the average price is sum(price * qty) / sum(qty); without fills the
\* quantity is executedQty and the average is cummulativeQuoteQty /
\* executedQty; a total quantity of zero gives average 0 and quantity 0; the
\* fills (100.00, 0.01), (102.00, 0.02) give 0.03 at 304/3 = 101.3333..
C21_FillAggregation ==
    FillsReturned =>
        LET r == calc.resp
            out == calc.result
            total == IF r.fills = <<>> THEN r.executedQty ELSE SumQty(r.fills)
            quote == IF r.fills = <<>> THEN r.cummulativeQuoteQty ELSE SumQuote(r.fills)
        IN  /\ out.executed_qty = total
            /\ total = Zero => out.avg_price = Zero /\ out.executed_qty = Zero
            /\ total # Zero => RMul(out.avg_price, total) = quote
            /\ r.fills = ExampleFills =>
                  out.executed_qty = <<3, 100>> /\ out.avg_price = <<304, 3>>

C21_Witness ==
    /\ FillsReturned
    /\ calc.resp.fills = ExampleFills
    /\ calc.resp.executedQty = R(2)
    /\ calc.result.executed_qty = <<3, 100>>
    /\ calc.result.avg_price = <<304, 3>>

RECURSIVE FirstFeeAsset(_)
\* the commission asset of the first fill that has a non-null one
FirstFeeAsset(fills) ==
    IF fills = <<>> THEN None
    ELSE IF "commissionAsset" \in DOMAIN Head(fills) /\ Head(fills).commissionAsset # None
         THEN Head(fills).commissionAsset
         ELSE FirstFeeAsset(Tail(fills))

\* the total fee is the sum of the commissions, 0 without fills or commissions
TotalFeeIsSum ==
    FillsReturned =>
        /\ calc.result.total_fee = TotalFee(calc.resp.fills)
        /\ (\A i \in DOMAIN calc.resp.fills : "commission" \notin DOMAIN calc.resp.fills[i])
              => calc.result.total_fee = Zero

\* C22: the total fee is the sum of the commissions of all fills (0 without
\* fills or without commission fields) and the fee asset is the commission
\* asset of the first fill that has a non-null one
C22_FeeAndFirstFeeAsset ==
    /\ TotalFeeIsSum
    /\ FillsReturned => calc.result.fee_asset = FirstFeeAsset(calc.resp.fills)

RoundReturned == calc.fn = "round_qty_to_step" /\ calc.done

\* the step has at most 8 decimals
StepOfEightDecimals == 100000000 % calc.step_size[2] = 0

\* the result is a multiple of the step, not above qty and less than a step
\* below it
LargestMultipleBelow ==
    /\ RLe(calc.rounded, calc.qty)
    /\ RLt(RSub(calc.qty, calc.rounded), calc.step_size)
    /\ RDiv(calc.rounded, calc.step_size)[2] = 1

\* with a step of at most 8 decimals the result is the largest multiple of
\* the step that is not above qty
RoundDownOnExchangeSteps ==
    RoundReturned /\ RLt(Zero, calc.step_size) /\ StepOfEightDecimals
        => LargestMultipleBelow

\* C23: with step > 0 and qty >= 0 the result is the largest multiple of step
\* that is <= qty: never greater than qty, and qty - result < step; with
\* step <= 0 the result is qty unchanged
C23_RoundDownToStep ==
    RoundReturned =>
        IF RLt(Zero, calc.step_size) THEN LargestMultipleBelow
        ELSE calc.rounded = calc.qty

GuardReturned == calc.fn = "_is_slippage_within_limit" /\ calc.done

\* the guard compares a spread: the ceiling is positive and the quote valid
GuardCompares ==
    /\ calc.max_slippage_bps > 0
    /\ calc.tick.ok /\ RLt(Zero, calc.tick.bid) /\ RLt(Zero, calc.tick.ask)

\* (ask - bid) / ((bid + ask) / 2) * 10000
SpreadBps ==
    RMul(RDiv(RSub(calc.tick.ask, calc.tick.bid),
              RDiv(RAdd(calc.tick.bid, calc.tick.ask), R(2))), R(10000))

QuoteIs(bid, ask) == calc.tick.ok /\ calc.tick.bid = bid /\ calc.tick.ask = ask

\* the guard accepts iff spread bps <= ceiling
AcceptsIffWithinCeiling ==
    GuardReturned /\ GuardCompares =>
        (calc.within <=> RLe(SpreadBps, R(calc.max_slippage_bps)))

\* C24: the guard accepts iff spread bps <= ceiling, with spread bps =
\* (ask - bid) / ((bid + ask) / 2) * 10000; a ceiling of 5 bps rejects
\* bid=100, ask=101 (99.5 bps) and also rejects bid=100, ask=100.1 (9.995
\* bps), which a ceiling of 10 bps or more accepts
C24_SlippageExamples ==
    /\ AcceptsIffWithinCeiling
    /\ GuardReturned /\ calc.max_slippage_bps = 5 /\ QuoteIs(R(100), R(101))
          => ~calc.within
    /\ GuardReturned /\ QuoteIs(R(100), <<1001, 10>>) =>
          /\ SpreadBps = <<20000, 2001>>
          /\ calc.max_slippage_bps = 5 => ~calc.within
          /\ calc.max_slippage_bps >= 10 => calc.within

C24_Witness ==
    /\ GuardReturned
    /\ calc.max_slippage_bps = 5
    /\ QuoteIs(R(100), <<1001, 10>>)
    /\ ~calc.within

\* C24 as stated: a ceiling of 5 bps rejects bid=100, ask=101 and accepts
\* bid=100, ask=100.1
C24_AsStated ==
    /\ AcceptsIffWithinCeiling
    /\ GuardReturned /\ calc.max_slippage_bps = 5 /\ QuoteIs(R(100), R(101))
          => ~calc.within
    /\ GuardReturned /\ calc.max_slippage_bps = 5 /\ QuoteIs(R(100), <<1001, 10>>)
          => calc.within

\* OrderManager.place_sell_order has come back from a full exit
ManagerSellReturned ==
    op.kind = "sell" /\ op.caller = "order_manager" /\ Returned

\* C25: OrderManager.place_sell_order returns True only if the sell was
\* executed (the symbol is removed from the map); when the executor skips or
\* fails the sell it does not report success
C25_SellSuccessOnlyWhenExecuted ==
    ManagerSellReturned /\ PlaceSellOrderReturn = "True" =>
        outcome = "success" /\ ~Has(positions, op.symbol)

\* this step makes a create_order, get_order or get_all_orders call
OrderCallStep ==
    /\ Len(calls') = Len(calls) + 1
    /\ calls'[Len(calls')].api \in {"create_order", "get_order", "get_all_orders"}

\* C26: while a live order is retried or polled the kill switch is checked
\* before every broker call: once it is active after the first attempt, no
\* further create_order, get_order or get_all_orders call is made for the
\* intent
C26_KillSwitchStopsOrderCalls ==
    [][Live /\ config.kill_switch /\ CreateOrderCalls # {} => ~OrderCallStep]_vars

\* a cycle of _find_and_execute_entries runs on a balance above the minimum
FundedCycle ==
    \E usdt_bal \in Balances :
        RLt(R(MIN_ORDER_USDT), usdt_bal) /\ EntriesWithBalance(usdt_bal)

\* C27: in every trading cycle each symbol that has an open position is
\* passed to its strategy's get_position_action (and the action returned is
\* dispatched to its handler)
C27_HeldSymbolsEvaluated ==
    [][\A symbol \in Symbols :
          FundedCycle /\ Has(positions, symbol) => action'.by # "none"]_vars

\* the state file holds exactly the in-memory map: the same symbols and, for
\* each, the same legs, qty, entry price and trailing stop
FileHoldsBook ==
    /\ DOMAIN persisted = DOMAIN positions
    /\ \A s \in DOMAIN positions :
         /\ persisted[s].legs = positions[s].legs
         /\ persisted[s].qty = positions[s].qty
         /\ persisted[s].entry_price = positions[s].entry_price
         /\ persisted[s].trailing_stop_price = positions[s].trailing_stop_price

\* a TradeExecutor call or a LiveTrader handler has come back and the map is
\* not what it was before
MutationDone ==
    /\ pc = "idle"
    /\ op.impl = "TE"
    /\ \/ positions # pre.positions
       \/ handler # NoHandler /\ positions # handler.before.positions

\* C28: after every position mutation of a cycle (entry buy, added leg,
\* trailing-stop update, partial exit, full sell) the persisted state holds
\* exactly the in-memory positions map
C28_FileHoldsBookAfterMutation == MutationDone => FileHoldsBook

MaxSleeps == 6

RECURSIVE SleepTimes(_, _)
\* the locals of the retry loop after n sleeps without jitter
SleepTimes(o, n) == IF n = 0 THEN o ELSE SleepTimes(Sleep(o, Zero), n - 1)

RECURSIVE Backoff(_)
\* min(2.0, 0.5 * 1.5^k)
Backoff(k) == IF k = 0 THEN <<1, 2>> ELSE RMin(R(2), RMul(Backoff(k - 1), <<3, 2>>))

\* create_order calls the configured budget allows: order_retry + 1, a
\* negative order_retry counting as 0
AttemptBudget == IF config.order_retry < 0 THEN 1 ELSE config.order_retry + 1

\* the retry loop is running
InRetryLoop == pc \in {"place", "lookup"}

\* what holds in every state of a live intent
RetryLoopBounded ==
    /\ Cardinality(CreateOrderCalls) <= AttemptBudget
    /\ attempt < AttemptBudget
    /\ \A k \in DOMAIN op.slept :
         /\ RLe(Backoff(k - 1), op.slept[k])
         /\ RLt(op.slept[k], RAdd(Backoff(k - 1), <<1, 5>>))
    /\ LET schedule == SleepTimes(NoOp, MaxSleeps).slept
       IN  /\ schedule = [k \in 1..MaxSleeps |-> Backoff(k - 1)]
           /\ SubSeq(schedule, 1, 5) =
                  <<<<1, 2>>, <<3, 4>>, <<9, 8>>, <<27, 16>>, R(2)>>
    /\ (Returned /\ outcome = "no_response") =>
          /\ Cardinality(CreateOrderCalls) = AttemptBudget
          /\ resp = NoResponse
          /\ positions = pre.positions
          /\ persisted = pre.persisted

\* iterations and lookups the retry loop still has before it: a natural
\* number that every step inside the loop must lower
LoopVariant ==
    2 * (AttemptBudget - attempt) - (IF pc = "lookup" THEN 1 ELSE 0)

\* a step that starts and ends inside the retry loop
LoopStep == InRetryLoop /\ InRetryLoop'

\* C29: for one live intent create_order is invoked at most order_retry + 1
\* times (a negative order_retry counts as 0); the wait between attempts
\* starts at 0.5 s, grows by the factor 1.5 and is capped at 2.0 s, plus a
\* jitter under 0.2 s; the retry loop always terminates (every step inside
\* it lowers a natural number), and when every attempt is without response
\* and without a reconciled order the intent ends with no response and the
\* positions and the state file as before
C29_RetryLoopBoundedAndTerminates ==
    /\ []RetryLoopBounded
    /\ [][LoopStep => LoopVariant' < LoopVariant /\ LoopVariant' >= 0]_vars

C29_Witness ==
    /\ Live /\ Returned /\ outcome = "no_response"
    /\ config.order_retry = 1
    /\ Cardinality(CreateOrderCalls) = 2
    /\ Len(op.slept) >= 1
    /\ op.slept[1] = <<69, 100>>
    /\ Has(positions, op.symbol) = (op.kind = "sell")

\* a LIVE TradeExecutor sell has returned after polling that never saw FILLED
SellPolledWithoutFill ==
    /\ op.kind = "sell" /\ op.impl = "TE" /\ Live /\ Returned
    /\ GetOrderCalls # {}
    /\ \A i \in GetOrderCalls : calls[i].got # "FILLED"

\* C30: a LIVE sell whose order is still not FILLED when the status polling
\* times out makes one final recent-orders lookup by the sell's key and
\* adopts a FILLED order found there: the sell succeeds and the position is
\* removed
C30_SellLateFillReconciled ==
    SellPolledWithoutFill =>
        LET n == Len(calls)
        IN  /\ calls[n].api = "get_all_orders"
            /\ calls[n].key = client_order_id
            /\ calls[n - 1].api = "get_order"
            /\ calls[n].got = "FILLED" =>
                 /\ outcome = "success"
                 /\ ~Has(positions, op.symbol)

----------------------------------------------------------------------------
(* C31..C40 *)

\* a LIVE template call has read valid positive quotes whose spread in basis
\* points of the mid price is above config.max_slippage_bps
TemplateSpreadOverCeiling ==
    /\ op.impl = "LOE" /\ Live /\ Started
    /\ pc # "slippage"
    /\ op.tick.ok
    /\ RLt(Zero, op.tick.bid) /\ RLt(Zero, op.tick.ask)
    /\ RLt(R(config.max_slippage_bps),
           RMul(RDiv(RSub(op.tick.ask, op.tick.bid),
                     RDiv(RAdd(op.tick.bid, op.tick.ask), R(2))), R(10000)))

\* C31: in LIVE mode execute_buy_order and execute_sell_order reject the
\* intent with a ValidationError, without calling do_buy_order / do_sell_order
\* (no create_order), whenever valid positive bid/ask quotes give a spread in
\* basis points greater than config.max_slippage_bps.
C31_TemplateSlippageRejects ==
    TemplateSpreadOverCeiling =>
        /\ outcome = "slippage"
        /\ CreateOrderCalls = {}

\* a LiveOrderExecutor sell has returned after an order that executed a
\* positive quantity
LiveSellExecuted ==
    /\ Returned /\ op.kind = "sell" /\ op.impl = "LOE"
    /\ outcome = "success"
    /\ RLt(Zero, resp.executedQty)

\* C32: a successful full sell through LiveOrderExecutor.execute_sell_order
\* (partial_exit false, executed quantity > 0) removes the symbol's Position
\* from the map, and a successful partial sell reduces the position's qty by
\* the executed quantity and removes the position when the remaining quantity
\* reaches zero.
C32_LiveSellUpdatesMap ==
    LiveSellExecuted =>
        /\ ~op.partial_exit => ~Has(positions, op.symbol)
        /\ (op.partial_exit /\ op.exit_qty # Zero) =>
             positions = ReduceQty(pre.positions, op.symbol, resp.executedQty)

\* can_add_position has returned
CanAddReturned == calc.fn = "can_add_position" /\ calc.done

\* C33: can_add_position returns true exactly when the position has fewer
\* legs than the maximum and either has no legs or the time since its last
\* leg is at least min_add_interval seconds, for every elapsed time including
\* one day or longer.
C33_CanAddIffIntervalPassed ==
    CanAddReturned =>
        (calc.can_add <=>
           /\ calc.n_legs < max_pyramid_legs
           /\ (calc.n_legs = 0 \/ calc.elapsed >= min_add_interval))

\* an evaluation returns an UPDATE_TRAIL action
TrailEmitted ==
    /\ ~action.pending
    /\ action'.pending
    /\ action'.action_type = "UPDATE_TRAIL"

\* C34: an UPDATE_TRAIL action is emitted only when the current price exceeds
\* the position's recorded highest_price and the emitted candidate stop is
\* strictly greater than the current trailing_stop_price, and the recorded
\* highest_price never decreases over a sequence of evaluations.
C34_TrailOnlyOnNewHigh ==
    [][/\ TrailEmitted =>
            \A s \in DOMAIN positions :
                /\ RLt(positions[s].highest_price, market'.close)
                /\ RLt(positions[s].trailing_stop_price, action'.price)
       /\ cycle' # cycle =>
            \A s \in DOMAIN positions \cap DOMAIN positions' :
                RLe(positions[s].highest_price, positions'[s].highest_price)]_vars

\* C35: the number of open positions never exceeds MAX_CONCURRENT_POS /
\* max_concurrent_positions, even when several symbols signal BUY in the same
\* cycle.
C35_ConcurrentPositionsCapped == Cardinality(DOMAIN positions) <= MAX_CONCURRENT_POS

\* add_leg has returned on a position that was partially sold before
AddLegReturned == calc.fn = "add_leg" /\ calc.done

\* C36: Position.qty equals the sum of the BUY-leg quantities minus the total
\* quantity sold by partial exits; adding a leg after a partial sell does not
\* restore the sold quantity.
C36_QtyNetOfPartialSells ==
    AddLegReturned =>
        /\ calc.qty_sold = RSub(calc.held, calc.sold)
        /\ calc.qty_added = RSub(RAdd(calc.held, calc.leg_qty), calc.sold)

\* a stop check by a trader whose sells go through has seen a positive price
\* at or under the trailing stop of the position, which an UPDATE_TRAIL had
\* raised above the initial stop
PriceUnderRaisedStop ==
    /\ handler.kind = "check_stops"
    /\ ~KillSwitchBlocks(config)
    /\ RLt(handler.position.stop_price, handler.position.trailing_stop_price)
    /\ RLt(Zero, handler.price)
    /\ RLe(handler.price, handler.position.trailing_stop_price)

\* C37: after an UPDATE_TRAIL action has raised a position's trailing stop to
\* T, the stop check of every later cycle sells the position as soon as
\* 0 < price <= T; the trigger level is never an older, lower stop.
C37_StopCheckUsesRaisedStop == PriceUnderRaisedStop => handler.result = "sold"

\* the broker calls that place, look up or quote an order
OrderApis == {"create_order", "get_order", "get_all_orders", "get_orderbook_ticker"}

\* a SIMULATED buy has succeeded for a symbol the book did not hold, or
\* through the TradeExecutor, which replaces the entry
SimulatedBuyFilled ==
    /\ config.execution_mode = "SIMULATED"
    /\ Started /\ op.kind = "buy" /\ op.caller = "none"
    /\ outcome = "success"
    /\ op.impl = "TE" \/ ~Has(pre.positions, op.symbol)

\* C38: in SIMULATED mode no buy or sell calls create_order, get_order,
\* get_all_orders or get_orderbook_ticker: the slippage check is skipped, no
\* order reaches the exchange, and the fill of a buy is synthesized from the
\* data provider's price (quantity = amount / price, and for the template
\* executor the entry price is that price).
C38_SimulatedNoBrokerCalls ==
    config.execution_mode = "SIMULATED" =>
        /\ \A i \in DOMAIN calls : calls[i].api \notin OrderApis
        /\ exch = <<>>
        /\ client_order_id = 0
        /\ pc \in {"idle", "call_buy", "add_after"}
        /\ SimulatedBuyFilled =>
             /\ Has(positions, op.symbol)
             /\ \E price \in CurrentPrices :
                  /\ RLt(Zero, price)
                  /\ positions[op.symbol].qty = RDiv(op.amount, price)
                  /\ op.impl = "SIM" => positions[op.symbol].entry_price = price

\* a SIMULATED template buy of 100 USDT has opened a position of 0.8 units
\* at the price 125 without any broker call
C38_Witness ==
    /\ SimulatedBuyFilled
    /\ op.impl = "SIM"
    /\ op.amount = R(100)
    /\ calls = <<>>
    /\ Has(positions, op.symbol)
    /\ positions[op.symbol].qty = <<4, 5>>
    /\ positions[op.symbol].entry_price = R(125)

\* _shutdown has returned
ShutdownDone == run.at = "exited"

\* C39: after stop() or a termination signal the run loop exits after the
\* current cycle (no further cycle starts, a started one finishes) and shutdown
\* sells every symbol of the book; in SIMULATED mode, where every sell
\* succeeds, the map and the state file are empty when shutdown completes.
C39_StopLeadsToShutdown ==
    /\ [](ShutdownDone => (positions = EmptyMap /\ persisted = EmptyMap))
    /\ [][(~run.running /\ run.at = "while") => run'.at = "exited"]_vars
    /\ [][(~run.running /\ run.at = "entries") => run'.at = "while"]_vars
    /\ (~run.running ~> ShutdownDone)

\* a stop that arrived in the middle of a cycle was followed by the rest of
\* the cycle and by a shutdown that sold a book of at least two symbols
C39_Witness ==
    /\ ShutdownDone
    /\ handler.kind = "shutdown"
    /\ Cardinality(DOMAIN handler.before.positions) >= 2
    /\ positions = EmptyMap
    /\ cycle >= 1

\* positions of one leg bought at 100 under three stops, and one pyramided at 120
SampleATRPositions ==
    {NewPosition(R(3), R(100), stop, 0) : stop \in {R(94), R(104), R(111)}}
        \cup {AddLeg(NewPosition(R(3), R(100), R(94), 0),
                     PositionLeg(3600, "BUY", R(1), R(120), "pyramid"))}

\* last rows with a usable ATR, from a loss of 6% to a tenfold price
SampleATRRows ==
    {[close |-> close, atr |-> atr, score |-> Zero] :
        close \in ClosePrices \cup {R(103), R(105), R(120), R(1000)},
        atr \in {R(1), R(4), R(40)}}

\* the ATR strategy returns SELL_PARTIAL for the position on the row
ATRSellsPartial(p, m) ==
    LET a == ATRPositionAction(p, m, ATR_MULTIPLIER)
    IN  a.pending /\ a.action_type = "SELL_PARTIAL"

\* C40: ATRTrailingStopStrategy.get_position_action can return SELL_PARTIAL:
\* for some position (a sample one, or one of the book) and some last row the
\* partial-exit branch is reached, not shadowed by the pyramid, averaging and
\* trailing branches.
C40_ATRCanSellPartial ==
    \E p \in SampleATRPositions \cup {positions[s] : s \in DOMAIN positions} :
        \E m \in SampleATRRows : ATRSellsPartial(p, m)

====
